---- MODULE Spec2Model ----
(***************************************************************************)
(* Skills discovery engine of openchat: the snapshot cache                 *)
(* (src/lib/ai/skills/cache.ts) and the directory scanner                  *)
(* (src/lib/ai/skills/loader.ts, with config.ts, parser.ts and the         *)
(* security helpers), and the runtime facade (runtime.ts, telemetry.ts).    *)
(*                                                                         *)
(* Spec        the cache: getSkillsSnapshot calls, build completions,      *)
(*             resetSkillsCache and the clock, in every interleaving.      *)
(* LoaderSpec  one run of loadSkillsSnapshot, one step per await-bounded   *)
(*             unit of work (a directory listing, one listing entry).      *)
(* GateSpec    isSkillEligibleByMetadata applied to every metadata shape.  *)
(* RuntimeSpec one request: the snapshot is built through the cache, then  *)
(*             loadSkillByName is called on it.                            *)
(* RouteSpec   the skills part of one run of postHandler                   *)
(*             (src/app/api/chat/route.ts).                                *)
(* DirectivesSpec  extractSkillDirectives and                              *)
(*             collectSkillDirectiveNamesFromRequestBody as functions.     *)
(* ConfigSpec  the workspaceDirs of getSkillsConfig as a function of       *)
(*             SKILLS_WORKSPACE_DIRS.                                      *)
(***************************************************************************)
EXTENDS Integers, Sequences, FiniteSets, TLC

VARIABLES
  \* ---- cache.ts ----
  state,      \* the module-level `state` (cache.ts:12); NoState is null
  builds,     \* every buildSnapshot run started so far, by build id
  calls,      \* every getSkillsSnapshot call made so far and what it got
  now,        \* Date.now()
  epoch,      \* number of resetSkillsCache calls so far
  \* ---- loader.ts ----
  pc,                    \* position of the loadSkillsSnapshot run
  config,                \* the SkillsConfig the run was given
  rootIdx,               \* index of the source root being scanned
  snapshot,              \* the snapshot under construction (loader.ts:65)
  seenNames,             \* loader.ts:66
  maxCountErrorEmitted,  \* loader.ts:67
  binCheckCache,         \* the process-wide cache of commandExists
  listed,                \* the directory listings made so far and how they ended
  offered,               \* the listing entries met so far, as they were met
  reads,                 \* indices (in offered) of entries whose file was read
  \* ---- security: the gate as a function ----
  gateCall,   \* one call of isSkillEligibleByMetadata: its input and result
  \* ---- runtime.ts / telemetry.ts ----
  loads,      \* the loadSkillByName calls made so far and what they returned
  telemetry,  \* the lines the logger has accepted, in order
  \* ---- app/api/chat/route.ts ----
  handler,    \* one run of postHandler: its position and its locals
  \* ---- directives.ts, config.ts: pure functions ----
  directiveCall,  \* one call of a directive function: its input and result
  configCall      \* one call of getSkillsConfig: its input and result

cacheVars == <<state, builds, calls, now, epoch>>
loaderVars == <<pc, config, rootIdx, snapshot, seenNames, maxCountErrorEmitted,
                binCheckCache, listed, offered, reads>>
runtimeVars == <<loads, telemetry>>
requestVars == <<handler, directiveCall, configCall>>
vars == <<state, builds, calls, now, epoch, pc, config, rootIdx, snapshot,
          seenNames, maxCountErrorEmitted, binCheckCache, listed, offered,
          reads, gateCall, loads, telemetry, handler, directiveCall,
          configCall>>

(***************************************************************************)
(* Bounds of the model.                                                    *)
(***************************************************************************)
MaxCalls == 3
MaxTime == 2
MaxResets == 1
TtlA == 1
TtlB == 2
MaxEntries == 3
MaxFaults == 1
MaxLoads == 2

(***************************************************************************)
(* cache.ts                                                                *)
(***************************************************************************)

\* The fingerprints of two configs that differ in a fingerprinted field
\* (here cacheTtlMs, which fingerprintConfig serialises).
fingerprintConfig == {"A", "B"}

\* config.cacheTtlMs of the config behind each fingerprint.
cacheTtlMs(fp) == IF fp = "A" THEN TtlA ELSE TtlB

\* `state = null`.  A snapshot is named by the build that produced it;
\* 0 is the empty snapshot literal of cache.ts:71-80.  inFlight = 0 is null.
NoState == [fingerprint |-> "", snapshot |-> 0, expiresAt |-> 0, inFlight |-> 0]

\* cache.ts:39-44: a live entry for this fingerprint.
IsLive_Inclusive(st, fp, t) ==
  st # NoState /\ st.fingerprint = fp /\ st.expiresAt >= t
IsLive(st, fp, t) ==
  st # NoState /\ st.fingerprint = fp /\ st.expiresAt > t

\* cache.ts:48: a build in flight for this fingerprint.
HasInFlight(st, fp) ==
  st # NoState /\ st.fingerprint = fp /\ st.inFlight # 0

\* The branch getSkillsSnapshot takes.
CallBranch(st, fp, t) ==
  IF IsLive(st, fp, t) THEN "hit"
  ELSE IF HasInFlight(st, fp) THEN "join"
  ELSE "start"

\* cache.ts:69-83: the entry written when a build is started.
PlaceholderState_NoMarker(st, fp, b) ==
  [fingerprint |-> fp,
   snapshot |-> IF st # NoState THEN st.snapshot ELSE 0,
   expiresAt |-> 0,
   inFlight |-> 0]
PlaceholderState_KeepsExpiry(st, fp, b) ==
  [fingerprint |-> fp,
   snapshot |-> IF st # NoState THEN st.snapshot ELSE 0,
   expiresAt |-> IF st # NoState THEN st.expiresAt ELSE 0,
   inFlight |-> b]
PlaceholderState(st, fp, b) ==
  [fingerprint |-> fp,
   snapshot |-> IF st # NoState THEN st.snapshot ELSE 0,
   expiresAt |-> 0,
   inFlight |-> b]

\* cache.ts:53-61: the entry written when build b resolves.
StoredState(fp, b, t) ==
  [fingerprint |-> fp, snapshot |-> b, expiresAt |-> t + cacheTtlMs(fp),
   inFlight |-> 0]

\* cache.ts:62-67: the catch handler of a build of fingerprint fp.
FailedState_Evict(st, fp) == NoState
FailedState(st, fp) ==
  IF st # NoState /\ st.fingerprint = fp
  THEN [st EXCEPT !.inFlight = 0]
  ELSE st

\* The promise a caller holds settles when its build does.
Settle(cs, b, res) ==
  [i \in 1..Len(cs) |->
     IF cs[i].kind # "hit" /\ cs[i].ref = b /\ cs[i].result = "pending"
     THEN [cs[i] EXCEPT !.result = res]
     ELSE cs[i]]

\* "Issued before the first scan has completed".
FirstScanOutstanding == builds = <<>> \/ builds[1].status = "pending"

\* cache.ts:35-86
getSkillsSnapshot(fp) ==
  /\ Len(calls) < MaxCalls
  /\ LET branch == CallBranch(state, fp, now)
         b == Len(builds) + 1
         call == [fp |-> fp, epoch |-> epoch, kind |-> branch,
                  early |-> FirstScanOutstanding,
                  ref |-> 0, result |-> "pending"]
     IN CASE branch = "hit" ->
               /\ calls' = Append(calls, [call EXCEPT !.ref = state.snapshot,
                                                      !.result = "resolved"])
               /\ UNCHANGED <<state, builds>>
          [] branch = "join" ->
               /\ calls' = Append(calls, [call EXCEPT !.ref = state.inFlight])
               /\ UNCHANGED <<state, builds>>
          [] OTHER ->
               /\ builds' = Append(builds, [fp |-> fp, status |-> "pending",
                                            epoch |-> epoch, doneAt |-> 0])
               /\ state' = PlaceholderState(state, fp, b)
               /\ calls' = Append(calls, [call EXCEPT !.ref = b])
  /\ UNCHANGED <<now, epoch>>
  /\ UNCHANGED loaderVars
  /\ UNCHANGED <<gateCall, loads, telemetry>>
  /\ UNCHANGED requestVars

\* cache.ts:28-33 resolving, then cache.ts:53-61
BuildResolves(b) ==
  /\ b \in 1..Len(builds)
  /\ builds[b].status = "pending"
  /\ builds' = [builds EXCEPT ![b].status = "ok", ![b].doneAt = now]
  /\ state' = StoredState(builds[b].fp, b, now)
  /\ calls' = Settle(calls, b, "resolved")
  /\ UNCHANGED <<now, epoch>>
  /\ UNCHANGED loaderVars
  /\ UNCHANGED <<gateCall, loads, telemetry>>
  /\ UNCHANGED requestVars

\* cache.ts:28-33 throwing (the scan or the telemetry call), then cache.ts:62-67
BuildRejects(b) ==
  /\ b \in 1..Len(builds)
  /\ builds[b].status = "pending"
  /\ builds' = [builds EXCEPT ![b].status = "failed", ![b].doneAt = now]
  /\ state' = FailedState(state, builds[b].fp)
  /\ calls' = Settle(calls, b, "rejected")
  /\ UNCHANGED <<now, epoch>>
  /\ UNCHANGED loaderVars
  /\ UNCHANGED <<gateCall, loads, telemetry>>
  /\ UNCHANGED requestVars

\* cache.ts:88-90
resetSkillsCache ==
  /\ epoch < MaxResets
  /\ state' = NoState
  /\ epoch' = epoch + 1
  /\ UNCHANGED <<builds, calls, now>>
  /\ UNCHANGED loaderVars
  /\ UNCHANGED <<gateCall, loads, telemetry>>
  /\ UNCHANGED requestVars

\* The clock advances between two turns of the event loop.
Tick ==
  /\ now < MaxTime
  /\ now' = now + 1
  /\ UNCHANGED <<state, builds, calls, epoch>>
  /\ UNCHANGED loaderVars
  /\ UNCHANGED <<gateCall, loads, telemetry>>
  /\ UNCHANGED requestVars

(***************************************************************************)
(* config.ts, parser.ts, the security helpers and loader.ts                *)
(***************************************************************************)

\* SkillSource (precedence: workspace, user, bundled).
SkillSource == {"workspace", "user", "bundled"}

\* The configs a run is given.  A null directory is "".
Configs ==
  [enabled : BOOLEAN,
   maxCount : {1, 2},
   maxFileBytes : {2},
   workspaceDirs : {<<"ws">>},
   userDir : {"user"},
   bundledDir : {"bundled"}]

\* config.ts:116-133
resolveSkillSourceRoots_BundledFirst(cfg) ==
  (IF cfg.bundledDir # ""
     THEN <<[source |-> "bundled", path |-> cfg.bundledDir]>> ELSE <<>>)
  \o (IF cfg.userDir # ""
     THEN <<[source |-> "user", path |-> cfg.userDir]>> ELSE <<>>)
  \o [i \in 1..Len(cfg.workspaceDirs) |->
       [source |-> "workspace", path |-> cfg.workspaceDirs[i]]]
resolveSkillSourceRoots(cfg) ==
  [i \in 1..Len(cfg.workspaceDirs) |->
     [source |-> "workspace", path |-> cfg.workspaceDirs[i]]]
  \o (IF cfg.userDir # ""
        THEN <<[source |-> "user", path |-> cfg.userDir]>> ELSE <<>>)
  \o (IF cfg.bundledDir # ""
        THEN <<[source |-> "bundled", path |-> cfg.bundledDir]>> ELSE <<>>)

\* loader.ts:19-25
createSourceStats ==
  [s \in SkillSource |-> [discovered |-> 0, loaded |-> 0, skipped |-> 0]]

\* loader.ts:27-34 (loadedAt is not modelled)
createEmptySkillsSnapshot ==
  [skills |-> <<>>, sourceStats |-> createSourceStats, errors |-> <<>>]

\* loader.ts:36-51
pushError(snap, source, code, reason, skillName) ==
  [snap EXCEPT !.errors =
     Append(@, [code |-> code, source |-> source, reason |-> reason,
                skillName |-> skillName])]

\* sourceStats[source].<counter> += 1
Bump(snap, source, counter) ==
  [snap EXCEPT !.sourceStats[source][counter] = @ + 1]

\* Skill names as front matter gives them, and String.prototype.toLowerCase.
SkillNames == {"Alpha", "alpha", "Beta"}
toLowerCase(name) ==
  CASE name = "Alpha" -> "alpha"
    [] name = "Beta" -> "beta"
    [] name = "Resume Polisher" -> "resume polisher"
    [] name = "[Use " -> "[use "
    [] name = "Skill:" -> "skill:"
    [] OTHER -> name

\* The front matter's metadata object as the gate sees it, together with
\* what the process holds for what it lists: the vendor namespace
\* (metadata.openchat) and its `requires` are absent, of a wrong shape (a
\* string, an array) or an object; a list is absent/empty/wrong-shaped
\* ("none") or names one platform (the current one or not), one variable
\* (set or not in process.env), one executable, one runtime-config path
\* (truthy or not in config.runtimeConfig).
Metadata ==
  [openchat : {"absent", "wrong", "object"},
   always : BOOLEAN,
   requires : {"absent", "wrong", "object"},
   os : {"none", "match", "mismatch"},
   env : {"none", "set", "unset"},
   bins : {"none", "listed"},
   config : {"none", "truthy", "falsy"}]

\* `metadata: {}` and `metadata: {openchat: {requires: {}}}`.
NoRequirements ==
  [openchat |-> "absent", always |-> FALSE, requires |-> "absent",
   os |-> "none", env |-> "none", bins |-> "none", config |-> "none"]
Requiring ==
  [NoRequirements EXCEPT !.openchat = "object", !.requires = "object"]

\* What one listing entry turns out to be, step by step: the Dirent kind, the
\* entry's name, the outcome of lstat on the directory, of stat on its
\* SKILL.md (and the size it reports), of readFile (and the size of the
\* content it returns, which is the file as it is at that later moment), of
\* parseSkillDocument, the metadata, and how the `which` child ends.
GoodEntry ==
  [dirent |-> "dir", dirName |-> "skill-dir", lstat |-> "dir", stat |-> "ok",
   size |-> 2, read |-> "ok", readSize |-> 2, parse |-> "ok",
   name |-> "Alpha", metadata |-> NoRequirements, spawn |-> "exit0"]

Entries ==
  {[GoodEntry EXCEPT !.dirent = d] : d \in {"file", "symlink"}}
  \cup {[GoodEntry EXCEPT !.lstat = x] : x \in {"symlink", "error"}}
  \cup {[GoodEntry EXCEPT !.stat = x] : x \in {"missing", "timeout"}}
  \cup {[GoodEntry EXCEPT !.size = 3]}
  \cup {[GoodEntry EXCEPT !.read = x] : x \in {"error", "timeout"}}
  \cup {[GoodEntry EXCEPT !.parse = "invalid"]}
  \cup {[GoodEntry EXCEPT !.name = n] : n \in SkillNames}
  \cup {[GoodEntry EXCEPT !.readSize = 3]}
  \cup {[GoodEntry EXCEPT !.metadata = [Requiring EXCEPT !.env = x]] :
          x \in {"set", "unset"}}
  \cup {[GoodEntry EXCEPT !.metadata =
            [Requiring EXCEPT !.env = "unset", !.always = TRUE]]}
  \cup {[GoodEntry EXCEPT !.metadata =
            [Requiring EXCEPT !.env = "unset", !.os = "mismatch"]]}
  \cup {[GoodEntry EXCEPT !.metadata = [Requiring EXCEPT !.bins = "listed"],
                          !.spawn = x] :
          x \in {"exit0", "exit1", "throws"}}

\* security: isPathWithinRoot(root, join(root, name, "SKILL.md")).  path.join
\* normalises, so only a name of ".." would leave the root; readdir never
\* lists it.
isPathWithinRoot(dirName) == dirName # ".."

\* security: commandExists.  The cached answer when there is one, else the
\* outcome of spawning `which`: exit code 0, another code or an 'error'
\* event, or spawn throwing synchronously inside the promise executor (an
\* argument with a NUL byte, E2BIG), which rejects the promise.
commandExists(cache, spawn) ==
  IF cache # "none"
  THEN [found |-> cache = "yes", rejects |-> FALSE, cache |-> cache]
  ELSE IF spawn = "throws"
  THEN [found |-> FALSE, rejects |-> TRUE, cache |-> cache]
  ELSE [found |-> spawn = "exit0", rejects |-> FALSE,
        cache |-> IF spawn = "exit0" THEN "yes" ELSE "no"]

isSkillEligibleByMetadata_FailOpen(m, cache, spawn) ==
  [eligible |-> TRUE, rejects |-> FALSE, cache |-> cache, reason |-> "",
   lookups |-> 0]
\* security: isSkillEligibleByMetadata.  `lookups` counts the calls of
\* commandExists it made; `rejects` is the promise rejecting instead of
\* resolving with a result.
isSkillEligibleByMetadata(m, cache, spawn) ==
  LET r == commandExists(cache, spawn)
      yes == [eligible |-> TRUE, rejects |-> FALSE, cache |-> cache,
              reason |-> "", lookups |-> 0]
      no(reason) == [yes EXCEPT !.eligible = FALSE, !.reason = reason]
      looked(res) == [res EXCEPT !.cache = r.cache, !.lookups = 1]
  IN IF m.openchat # "object" THEN yes
     ELSE IF m.always THEN yes
     ELSE IF m.requires # "object" THEN yes
     ELSE IF m.os = "mismatch"
       THEN no("os requirement not met (platform)")
     ELSE IF m.env = "unset"
       THEN no("env requirement not met (KEY)")
     ELSE IF m.bins = "listed" /\ r.rejects
       THEN [looked(no("")) EXCEPT !.rejects = TRUE]
     ELSE IF m.bins = "listed" /\ ~r.found
       THEN looked(no("binary requirement not met (tool)"))
     ELSE IF m.config = "falsy"
       THEN IF m.bins = "listed"
            THEN looked(no("config requirement not met (path)"))
            ELSE no("config requirement not met (path)")
     ELSE IF m.bins = "listed" THEN looked(yes) ELSE yes

\* loader.ts:107: the ceiling test.
AtMaxCount_Off(snap, cfg) == Len(snap.skills) > cfg.maxCount
AtMaxCount(snap, cfg) == Len(snap.skills) >= cfg.maxCount

\* loader.ts:258-259: the dedupe key.
dedupeKey_CaseSensitive(name) == name
dedupeKey(name) == toLowerCase(name)

\* The source root being scanned.
CurrentRoot == resolveSkillSourceRoots(config)[rootIdx]

\* loader.ts:71 and 285-286: on to the next root, or out of the loop to
\* `return snapshot`.
AfterRoot_Stop == "done"
AfterRoot ==
  IF rootIdx < Len(resolveSkillSourceRoots(config)) THEN "list" ELSE "done"

\* The entries that are a readable, well-formed skill requiring nothing.
PlainEntries == {[GoodEntry EXCEPT !.name = n] : n \in SkillNames}

\* The model bounds a run by the listing entries it meets and by how many
\* of the filesystem events are faulty (a failed listing, an entry that is
\* not a plain skill).
Faults ==
  Cardinality({i \in DOMAIN listed : listed[i].outcome \notin {"ok", "ENOENT"}})
  + Cardinality({i \in DOMAIN offered : offered[i].e \notin PlainEntries})

\* An entry skipped with an error (skipped += 1, pushError).
SkipWithError_Uncounted(snap, source, code, reason, skillName) ==
  pushError(snap, source, code, reason, skillName)
SkipWithError(snap, source, code, reason, skillName) ==
  pushError(Bump(snap, source, "skipped"), source, code, reason, skillName)

\* loader.ts:61: the scan is switched off.
IsDisabled_Never(cfg) == FALSE
IsDisabled(cfg) == ~cfg.enabled

\* loader.ts:58-69
loadSkillsSnapshot ==
  /\ pc = "start"
  /\ snapshot' = createEmptySkillsSnapshot
  /\ seenNames' = {}
  /\ maxCountErrorEmitted' = FALSE
  /\ IF IsDisabled(config)
       THEN pc' = "done" /\ rootIdx' = 0
       ELSE pc' = "list" /\ rootIdx' = 1
  /\ UNCHANGED <<config, binCheckCache, listed, offered, reads>>
  /\ UNCHANGED cacheVars
  /\ UNCHANGED <<gateCall, loads, telemetry>>
  /\ UNCHANGED requestVars

\* loader.ts:71-104: the listing of the next source root.
ReadDir(outcome) ==
  /\ pc = "list"
  /\ rootIdx <= Len(resolveSkillSourceRoots(config))
  /\ listed' = Append(listed, [source |-> CurrentRoot.source,
                                path |-> CurrentRoot.path,
                                outcome |-> outcome])
  /\ CASE outcome = "ok" ->
            pc' = "entries" /\ UNCHANGED <<rootIdx, snapshot>>
       [] outcome = "ENOENT" ->
            pc' = AfterRoot /\ rootIdx' = rootIdx + 1 /\ UNCHANGED snapshot
       [] OTHER ->
            /\ Faults < MaxFaults
            /\ pc' = AfterRoot
            /\ rootIdx' = rootIdx + 1
            /\ snapshot' =
                 pushError(snapshot, CurrentRoot.source,
                           IF outcome = "timeout" THEN "load_timeout"
                           ELSE "directory_unreadable",
                           IF outcome = "timeout"
                           THEN "Timed out while reading skills directory"
                           ELSE "EACCES", "")
  /\ UNCHANGED <<config, seenNames, maxCountErrorEmitted, binCheckCache,
                 offered, reads>>
  /\ UNCHANGED cacheVars
  /\ UNCHANGED <<gateCall, loads, telemetry>>
  /\ UNCHANGED requestVars

\* loader.ts:272: seenNames.add(dedupeKey) stands behind the gate and the
\* duplicate test, so only an accepted skill's name is added.
seenNamesAdd_BeforeGate(seen, parsed, accepted, key) ==
  IF parsed THEN seen \cup {key} ELSE seen
seenNamesAdd(seen, parsed, accepted, key) ==
  IF accepted THEN seen \cup {key} ELSE seen

\* loader.ts:106-282: one entry of the listing.
ProcessEntry(e) ==
  /\ pc = "entries"
  /\ Len(offered) < MaxEntries
  /\ e \in PlainEntries \/ Faults < MaxFaults
  /\ LET source == CurrentRoot.source
         full == AtMaxCount(snapshot, config)
         found == Bump(snapshot, source, "discovered")
         gate == isSkillEligibleByMetadata(e.metadata, binCheckCache, e.spawn)
         readInvoked ==
           /\ ~full /\ e.dirent = "dir" /\ isPathWithinRoot(e.dirName)
           /\ e.lstat = "dir" /\ e.stat = "ok"
           /\ e.size <= config.maxFileBytes
         gateInvoked == readInvoked /\ e.read = "ok" /\ e.parse = "ok"
         accepted ==
           /\ gateInvoked /\ ~gate.rejects /\ gate.eligible
           /\ dedupeKey(e.name) \notin seenNames
     IN /\ offered' = Append(offered, [source |-> source, e |-> e,
                                       count |-> Len(snapshot.skills)])
        /\ reads' = IF readInvoked THEN reads \cup {Len(offered) + 1}
                    ELSE reads
        /\ binCheckCache' = IF gateInvoked THEN gate.cache ELSE binCheckCache
        /\ pc' = IF gateInvoked /\ gate.rejects THEN "rejected" ELSE "entries"
        /\ maxCountErrorEmitted' = (maxCountErrorEmitted \/ full)
        /\ seenNames' = seenNamesAdd(seenNames, gateInvoked, accepted,
                                     dedupeKey(e.name))
        /\ snapshot' =
             IF full THEN
               IF maxCountErrorEmitted
               THEN Bump(snapshot, source, "skipped")
               ELSE SkipWithError(snapshot, source, "max_count_reached",
                                  "Maximum skill count reached", "")
             ELSE IF e.dirent # "dir" THEN
               Bump(snapshot, source, "skipped")
             ELSE IF ~isPathWithinRoot(e.dirName) THEN
               SkipWithError(found, source, "path_escape_blocked", "", "")
             ELSE IF e.lstat = "symlink" THEN
               SkipWithError(found, source, "entry_symlink_ignored", "", "")
             ELSE IF e.lstat = "error" THEN
               SkipWithError(found, source, "skill_file_unreadable", "", "")
             ELSE IF e.stat # "ok" THEN
               SkipWithError(found, source,
                             IF e.stat = "timeout" THEN "load_timeout"
                             ELSE "skill_file_missing",
                             IF e.stat = "timeout"
                             THEN "Timed out while reading skill file stats"
                             ELSE "ENOENT", "")
             ELSE IF e.size > config.maxFileBytes THEN
               SkipWithError(found, source, "skill_file_too_large", "", "")
             ELSE IF e.read # "ok" THEN
               SkipWithError(found, source,
                             IF e.read = "timeout" THEN "load_timeout"
                             ELSE "skill_file_unreadable",
                             IF e.read = "timeout"
                             THEN "Timed out while reading skill file"
                             ELSE "EACCES", "")
             ELSE IF e.parse # "ok" THEN
               SkipWithError(found, source, "skill_parse_invalid", "", "")
             ELSE IF gate.rejects THEN
               found
             ELSE IF ~gate.eligible THEN
               SkipWithError(found, source, "skill_gated", gate.reason,
                             e.name)
             ELSE IF dedupeKey(e.name) \in seenNames THEN
               SkipWithError(found, source, "skill_name_duplicate", "",
                             e.name)
             ELSE
               [Bump(found, source, "loaded") EXCEPT !.skills =
                  Append(@, [name |-> e.name, source |-> source,
                             entry |-> Len(offered) + 1])]
  /\ UNCHANGED <<config, rootIdx, listed>>
  /\ UNCHANGED cacheVars
  /\ UNCHANGED <<gateCall, loads, telemetry>>
  /\ UNCHANGED requestVars

\* loader.ts:106/282-283: the listing is exhausted.
EndOfListing ==
  /\ pc = "entries"
  /\ pc' = AfterRoot
  /\ rootIdx' = rootIdx + 1
  /\ UNCHANGED <<config, snapshot, seenNames, maxCountErrorEmitted,
                 binCheckCache, listed, offered, reads>>
  /\ UNCHANGED cacheVars
  /\ UNCHANGED <<gateCall, loads, telemetry>>
  /\ UNCHANGED requestVars

(***************************************************************************)
(* The gate as a function:     one call of isSkillEligibleByMetadata on every  *)
(* metadata shape, with the binary cache and the `which` child in every    *)
(* state.                                                                  *)
(***************************************************************************)

\* No call made (yet): the result slot is empty.
NoResult ==
  [eligible |-> TRUE, rejects |-> FALSE, cache |-> "none", reason |-> "",
   lookups |-> 0]

GateIdle ==
  gateCall = [pc |-> "idle", metadata |-> NoRequirements, spawn |-> "exit0",
          cacheBefore |-> "none", result |-> NoResult]

\* await isSkillEligibleByMetadata(metadata, config)
EvaluateGate ==
  /\ gateCall.pc = "call"
  /\ LET r == isSkillEligibleByMetadata(gateCall.metadata, binCheckCache,
                                        gateCall.spawn)
     IN /\ gateCall' = [gateCall EXCEPT !.pc = IF r.rejects THEN "rejected"
                                       ELSE "returned",
                                !.cacheBefore = binCheckCache,
                                !.result = r]
        /\ binCheckCache' = r.cache
  /\ UNCHANGED cacheVars
  /\ UNCHANGED <<pc, config, rootIdx, snapshot, seenNames,
                 maxCountErrorEmitted, listed, offered, reads>>
  /\ UNCHANGED runtimeVars
  /\ UNCHANGED requestVars

LoaderIdle ==
  /\ pc = "idle"
  /\ config = [enabled |-> FALSE, maxCount |-> 1, maxFileBytes |-> 2,
               workspaceDirs |-> <<"ws">>, userDir |-> "user",
               bundledDir |-> "bundled"]
  /\ rootIdx = 0
  /\ snapshot = createEmptySkillsSnapshot
  /\ seenNames = {}
  /\ maxCountErrorEmitted = FALSE
  /\ binCheckCache = "none"
  /\ listed = <<>>
  /\ offered = <<>>
  /\ reads = {}

CacheIdle ==
  /\ state = NoState
  /\ builds = <<>>
  /\ calls = <<>>
  /\ now = 1
  /\ epoch = 0

RuntimeIdle ==
  /\ loads = <<>>
  /\ telemetry = <<>>

\* No request is being handled.
NoRequest ==
  [pc |-> "idle", isReasoningModel |-> FALSE, requestedSkillNames |-> <<>>,
   skills |-> <<>>, skillToolingEnabled |-> FALSE,
   explicitlyLoadedSkills |-> <<>>, missingExplicitSkillNames |-> <<>>,
   skillsSystemPrompt |-> FALSE, explicitSkillsSystemPrompt |-> FALSE,
   tools |-> {}, activeTools |-> {}, failedAt |-> "none"]

\* No call of a directive function, none of getSkillsConfig.
NoDirectiveCall ==
  [pc |-> "idle", fn |-> "none", text |-> <<>>,
   body |-> [message |-> [role |-> "undefined", parts |-> <<>>],
             messages |-> <<>>],
   requestedSkillNames |-> <<>>, strippedText |-> <<>>]
NoConfigCall ==
  [pc |-> "idle", SKILLS_WORKSPACE_DIRS |-> <<>>, workspaceDirs |-> <<>>]

RequestIdle ==
  /\ handler = NoRequest
  /\ directiveCall = NoDirectiveCall
  /\ configCall = NoConfigCall

LoaderInit ==
  /\ CacheIdle
  /\ GateIdle
  /\ RuntimeIdle
  /\ RequestIdle
  /\ pc = "start"
  /\ config \in Configs
  /\ rootIdx = 0
  /\ snapshot = createEmptySkillsSnapshot
  /\ seenNames = {}
  /\ maxCountErrorEmitted = FALSE
  /\ binCheckCache = "none"
  /\ listed = <<>>
  /\ offered = <<>>
  /\ reads = {}

LoaderNext ==
  \/ loadSkillsSnapshot
  \/ \E outcome \in {"ok", "ENOENT", "timeout", "error"} : ReadDir(outcome)
  \/ \E e \in Entries : ProcessEntry(e)
  \/ EndOfListing

LoaderSpec == LoaderInit /\ [][LoaderNext]_vars

GateInit ==
  /\ CacheIdle
  /\ RuntimeIdle
  /\ RequestIdle
  /\ pc = "idle"
  /\ config \in {c \in Configs : c.enabled /\ c.maxCount = 1}
  /\ rootIdx = 0
  /\ snapshot = createEmptySkillsSnapshot
  /\ seenNames = {}
  /\ maxCountErrorEmitted = FALSE
  /\ binCheckCache \in {"none", "yes", "no"}
  /\ listed = <<>>
  /\ offered = <<>>
  /\ reads = {}
  /\ gateCall \in [pc : {"call"}, metadata : Metadata,
                spawn : {"exit0", "exit1", "throws"},
                cacheBefore : {"none"}, result : {NoResult}]

GateNext == EvaluateGate

GateSpec == GateInit /\ [][GateNext]_vars

(***************************************************************************)
(* parser.ts, telemetry.ts and runtime.ts: one request.  The snapshot is   *)
(* built through the cache (buildSnapshot: the scan, then the telemetry    *)
(* call), then loadSkillByName is called on its skills.                    *)
(***************************************************************************)

\* A SKILL.md as its lines.
Delimiter == "---"
NameLine == "name: Alpha"
DescriptionLine == "description: d"

\* The document the scan saw, and what the file may hold when it is loaded:
\* a rewritten body (with blank lines around it), no front matter, no
\* description, no body, a body holding a horizontal rule.
OldDoc == <<Delimiter, NameLine, DescriptionLine, Delimiter, "old body">>
NewDoc ==
  <<Delimiter, NameLine, DescriptionLine, Delimiter, "", "new body", "">>
Documents ==
  {OldDoc, NewDoc,
   <<"new body">>,
   <<Delimiter, NameLine, Delimiter, "new body">>,
   <<Delimiter, NameLine, DescriptionLine, Delimiter>>,
   <<Delimiter, NameLine, DescriptionLine, Delimiter,
     "new body", Delimiter, "more">>}

\* String.prototype.trim on a text given as lines: blank lines at both ends
\* go.
trimLines(doc) ==
  LET kept == {i \in DOMAIN doc : doc[i] # ""}
  IN IF kept = {} THEN <<>>
     ELSE SubSeq(doc, CHOOSE i \in kept : \A j \in kept : i <= j,
                      CHOOSE i \in kept : \A j \in kept : i >= j)

\* parser.ts:4 FRONTMATTER_PATTERN: the line of the closing delimiter (the
\* first one after the opening line and at least one more line), 0 when the
\* pattern does not match.
FrontmatterEnd(doc) ==
  LET closing == {i \in 3..Len(doc) : doc[i] = Delimiter}
  IN IF doc # <<>> /\ doc[1] = Delimiter /\ closing # {}
     THEN CHOOSE i \in closing : \A j \in closing : i <= j
     ELSE 0

\* parser.ts:34-37
stripFrontmatter_Identity(doc) == doc
stripFrontmatter(doc) ==
  trimLines(IF FrontmatterEnd(doc) # 0
            THEN SubSeq(doc, FrontmatterEnd(doc) + 1, Len(doc))
            ELSE doc)

\* parser.ts:39-63: ok is FALSE where it throws.
parseSkillDocument(doc) ==
  LET end == FrontmatterEnd(doc)
      header == IF end = 0 THEN <<>> ELSE SubSeq(doc, 2, end - 1)
  IN [ok |-> /\ end # 0
             /\ header # <<"">>
             /\ \E i \in DOMAIN header : header[i] = NameLine
             /\ \E i \in DOMAIN header : header[i] = DescriptionLine,
      name |-> "Alpha",
      body |-> stripFrontmatter(doc)]

\* The names loadSkillByName is asked for (another spelling of the name of
\* the skill in the snapshot, and a name that is not in it), and
\* String.prototype.trim.
NameInputs == {" alpha ", "Beta"}
trim(name) == IF name = " alpha " THEN "alpha" ELSE name

\* The optional context argument; "undefined" is an argument or a field
\* left out, "null" is null.
Contexts ==
  {[source |-> "undefined", invokedToolName |-> "undefined"],
   [source |-> "tool", invokedToolName |-> "load_skill"],
   [source |-> "explicit_directive", invokedToolName |-> "null"]}

\* `value ?? null`
orNull(value) == IF value = "undefined" THEN "null" ELSE value

\* What the definition file turns out to be when loadSkillByName runs: the
\* outcome of stat (and the size it reports), of readFile, and the content.
GoodFile == [stat |-> "ok", size |-> 2, read |-> "ok", doc |-> NewDoc]
Files ==
  {[GoodFile EXCEPT !.stat = x] : x \in {"missing", "timeout"}}
  \cup {[GoodFile EXCEPT !.size = 3]}
  \cup {[GoodFile EXCEPT !.read = x] : x \in {"error", "timeout"}}
  \cup {[GoodFile EXCEPT !.doc = d] : d \in Documents}
PlainFiles == {[GoodFile EXCEPT !.doc = d] : d \in {OldDoc, NewDoc}}

\* How the logger takes the first and the second line a call hands it.
SinkWorks == <<"ok", "ok">>
Sinks == {SinkWorks, <<"throws", "ok">>, <<"throws", "throws">>}

\* telemetry.ts:65-95: the line recordLoadSkillInvocation logs.
recordLoadSkillInvocation_NoContext(skillName, ok, errorCode, context) ==
  [event |-> "load_skill_invocation", skillName |-> skillName,
   source |-> "null", invokedToolName |-> "null",
   ok |-> ok, errorCode |-> errorCode]
recordLoadSkillInvocation(skillName, ok, errorCode, context) ==
  [event |-> "load_skill_invocation", skillName |-> skillName,
   source |-> orNull(context.source),
   invokedToolName |-> orNull(context.invokedToolName),
   ok |-> ok, errorCode |-> errorCode]

\* runtime.ts: stats.size > config.maxFileBytes
TooLarge_Never(file, cfg) == FALSE
TooLarge(file, cfg) == file.size > cfg.maxFileBytes

\* What a loadSkillByName call comes to: it returns null or a loaded skill,
\* or it throws (its promise rejects).
ReturnsNull(lines) == [kind |-> "null", content |-> <<>>, lines |-> lines]
Throws == [kind |-> "threw", content |-> <<>>, lines |-> <<>>]

\* runtime.ts: loadSkillByName(skills, name, config, context), given what the
\* file and the logger turn out to be.
loadSkillByName(skills, name, cfg, context, file, sinks) ==
  LET normalizedName == toLowerCase(trim(name))
      matches == {i \in DOMAIN skills :
                    toLowerCase(skills[i].name) = normalizedName}
      matchedSkill == skills[CHOOSE i \in matches : \A j \in matches : i <= j]
      parsed == parseSkillDocument(file.doc)
      \* the error the try block ends with, "" when it reaches the return
      thrown ==
        IF file.stat = "missing" THEN "ENOENT"
        ELSE IF file.stat = "timeout" THEN "runtime_error"
        ELSE IF TooLarge(file, cfg) THEN ""
        ELSE IF file.read = "error" THEN "EACCES"
        ELSE IF file.read = "timeout" THEN "runtime_error"
        ELSE IF ~parsed.ok THEN "runtime_error"
        ELSE ""
      tooLarge == file.stat = "ok" /\ TooLarge(file, cfg)
      line(skillName, ok, errorCode) ==
        recordLoadSkillInvocation(skillName, ok, errorCode, context)
      \* the catch block, its line going to the logger's answer `sink`
      catch(errorCode, sink) ==
        IF sink = "ok"
        THEN ReturnsNull(<<line(matchedSkill.name, FALSE, errorCode)>>)
        ELSE Throws
  IN IF matches = {} THEN
       IF sinks[1] = "ok"
       THEN ReturnsNull(<<line(name, FALSE, "null")>>)
       ELSE Throws
     ELSE IF thrown # "" THEN
       catch(thrown, sinks[1])
     ELSE IF tooLarge THEN
       IF sinks[1] = "ok"
       THEN ReturnsNull(<<line(matchedSkill.name, FALSE, "runtime_error")>>)
       ELSE catch("runtime_error", sinks[2])
     ELSE
       IF sinks[1] = "ok"
       THEN [kind |-> "loaded", content |-> parsed.body,
             lines |-> <<line(matchedSkill.name, TRUE, "null")>>]
       ELSE catch("runtime_error", sinks[2])

\* The snapshot the scan of this request returns: one skill, Alpha.
ScannedSnapshot ==
  [createEmptySkillsSnapshot EXCEPT
     !.skills = <<[name |-> "Alpha", source |-> "workspace", entry |-> 1]>>,
     !.sourceStats["workspace"] =
        [discovered |-> 1, loaded |-> 1, skipped |-> 0]]

\* cache.ts:28-33 for the build of this request: the scan has returned
\* ScannedSnapshot and recordSkillsSnapshot hands its line to the logger.
\* When the logger throws, buildSnapshot throws and the build is rejected
\* (cache.ts:62-67); else it is stored (cache.ts:53-61).
buildSnapshot(sink) ==
  /\ builds # <<>>
  /\ builds[1].status = "pending"
  /\ IF sink = "ok"
     THEN /\ builds' = [builds EXCEPT ![1].status = "ok", ![1].doneAt = now]
          /\ state' = StoredState(builds[1].fp, 1, now)
          /\ calls' = Settle(calls, 1, "resolved")
          /\ telemetry' =
               Append(telemetry,
                      [event |-> "skills_snapshot_loaded",
                       skillName |-> "null", source |-> "null",
                       invokedToolName |-> "null", ok |-> TRUE,
                       errorCode |-> "null", call |-> 0])
     ELSE /\ builds' = [builds EXCEPT ![1].status = "failed",
                                      ![1].doneAt = now]
          /\ state' = FailedState(state, builds[1].fp)
          /\ calls' = Settle(calls, 1, "rejected")
          /\ telemetry' = telemetry
  /\ UNCHANGED <<now, epoch, loads, gateCall>>
  /\ UNCHANGED loaderVars
  /\ UNCHANGED requestVars

\* The model bounds a request by the loadSkillByName calls it makes and by
\* how many of them meet a fault (a file that is not a plain skill
\* document, a logger that throws).
RuntimeFaults ==
  Cardinality({i \in DOMAIN loads :
                 loads[i].file \notin PlainFiles \/ loads[i].sinks # SinkWorks})

\* A call of loadSkillByName on the skills of the resolved snapshot.
CallLoadSkillByName(name, context, file, sinks) ==
  /\ calls # <<>>
  /\ calls[1].result = "resolved"
  /\ Len(loads) < MaxLoads
  /\ file \in PlainFiles \/ sinks = SinkWorks
  /\ (file \in PlainFiles /\ sinks = SinkWorks) \/ RuntimeFaults < MaxFaults
  /\ LET r == loadSkillByName(snapshot.skills, name, config, context, file,
                              sinks)
     IN /\ loads' = Append(loads, [name |-> name, context |-> context,
                                   file |-> file, sinks |-> sinks,
                                   result |-> [kind |-> r.kind,
                                               content |-> r.content]])
        /\ telemetry' =
             telemetry \o [i \in 1..Len(r.lines) |->
                             [event |-> r.lines[i].event,
                              skillName |-> r.lines[i].skillName,
                              source |-> r.lines[i].source,
                              invokedToolName |-> r.lines[i].invokedToolName,
                              ok |-> r.lines[i].ok,
                              errorCode |-> r.lines[i].errorCode,
                              call |-> Len(loads) + 1]]
  /\ UNCHANGED cacheVars
  /\ UNCHANGED loaderVars
  /\ UNCHANGED gateCall
  /\ UNCHANGED requestVars

RuntimeInit ==
  /\ CacheIdle
  /\ GateIdle
  /\ RuntimeIdle
  /\ RequestIdle
  /\ pc = "done"
  /\ config \in {c \in Configs : c.enabled /\ c.maxCount = 1}
  /\ rootIdx = 0
  /\ snapshot = ScannedSnapshot
  /\ seenNames = {"alpha"}
  /\ maxCountErrorEmitted = FALSE
  /\ binCheckCache = "none"
  /\ listed = <<>>
  /\ offered = <<>>
  /\ reads = {}

RuntimeNext ==
  \/ calls = <<>> /\ getSkillsSnapshot("A")
  \/ \E sink \in {"ok", "throws"} : buildSnapshot(sink)
  \/ \E name \in NameInputs, context \in Contexts, file \in Files,
        sinks \in Sinks : CallLoadSkillByName(name, context, file, sinks)

RuntimeSpec == RuntimeInit /\ [][RuntimeNext]_vars

(***************************************************************************)
(* app/api/chat/route.ts: the skills part of one run of postHandler.  The  *)
(* handler takes the snapshot from the cache (falling back to an empty one *)
(* when the promise rejects), decides whether skill tooling is on, loads   *)
(* the skills the request names by directive, and starts the response.     *)
(***************************************************************************)

\* runtime.ts:7-13
shouldEnableSkillTooling_IgnoresCount(enabled, count, isReasoningModel) ==
  enabled /\ ~isReasoningModel
shouldEnableSkillTooling(enabled, discoveredSkillCount, isReasoningModel) ==
  enabled /\ discoveredSkillCount > 0 /\ ~isReasoningModel

\* runtime.ts:15-37: whether buildSkillsSystemPrompt returns a non-empty
\* section.
buildSkillsSystemPrompt(skills) == Len(skills) # 0

\* route.ts:116-135: whether buildExplicitSkillsSystemPrompt returns a
\* non-empty section.
buildExplicitSkillsSystemPrompt(loadedSkills) == Len(loadedSkills) # 0

\* The snapshot of a scan that met one skill and gated it.
GatedSnapshot ==
  pushError(Bump(Bump(createEmptySkillsSnapshot, "workspace", "discovered"),
                 "workspace", "skipped"),
            "workspace", "skill_gated", "env requirement not met", "Alpha")

\* The names the directives of a request ask for (route.ts:187-190): they
\* come trimmed and without case-insensitive repeats.
RequestedSkillNames == {<<>>, <<"alpha">>, <<"Beta">>, <<"alpha", "Beta">>}

\* The context the handler passes for a directive (route.ts:253-256).
ExplicitDirective ==
  [source |-> "explicit_directive", invokedToolName |-> "null"]

\* route.ts:222-244: the awaited snapshot arrives.  A rejection is caught:
\* it is logged and an empty snapshot stands in for it.
AwaitSkillsSnapshot(logger) ==
  /\ handler.pc = "start"
  /\ calls # <<>>
  /\ calls[1].result # "pending"
  /\ calls[1].result = "resolved" => logger = "ok"
  /\ IF calls[1].result = "rejected" /\ logger = "throws"
     THEN handler' = [handler EXCEPT !.pc = "failed",
                                     !.failedAt = "snapshot.load_failed"]
     ELSE LET skills == IF calls[1].result = "resolved"
                        THEN snapshot.skills
                        ELSE <<>>
          IN handler' =
               [handler EXCEPT
                  !.pc = "loading",
                  !.skills = skills,
                  !.skillToolingEnabled =
                     shouldEnableSkillTooling(config.enabled, Len(skills),
                                              handler.isReasoningModel)]
  /\ UNCHANGED cacheVars
  /\ UNCHANGED loaderVars
  /\ UNCHANGED <<gateCall, loads, telemetry>>
  /\ UNCHANGED <<directiveCall, configCall>>

\* The names already gone through the loop of route.ts:248-268.
Resolved ==
  Len(handler.explicitlyLoadedSkills) + Len(handler.missingExplicitSkillNames)

\* route.ts:248-268: one turn of the loop over requestedSkillNames.  The
\* call is awaited outside any try: when it throws, so does the handler.
LoadRequestedSkill(file, sinks) ==
  /\ handler.pc = "loading"
  /\ Resolved < Len(handler.requestedSkillNames)
  /\ LET requestedSkillName == handler.requestedSkillNames[Resolved + 1]
         r == loadSkillByName(handler.skills, requestedSkillName, config,
                              ExplicitDirective, file, sinks)
     IN /\ loads' = Append(loads, [name |-> requestedSkillName,
                                   context |-> ExplicitDirective,
                                   file |-> file, sinks |-> sinks,
                                   result |-> [kind |-> r.kind,
                                               content |-> r.content]])
        /\ telemetry' =
             telemetry \o [i \in 1..Len(r.lines) |->
                             [event |-> r.lines[i].event,
                              skillName |-> r.lines[i].skillName,
                              source |-> r.lines[i].source,
                              invokedToolName |-> r.lines[i].invokedToolName,
                              ok |-> r.lines[i].ok,
                              errorCode |-> r.lines[i].errorCode,
                              call |-> Len(loads) + 1]]
        /\ handler' =
             CASE r.kind = "threw" ->
                    [handler EXCEPT !.pc = "failed",
                                    !.failedAt = "loadSkillByName"]
               [] r.kind = "null" ->
                    [handler EXCEPT !.missingExplicitSkillNames =
                                       Append(@, requestedSkillName)]
               [] OTHER ->
                    [handler EXCEPT !.explicitlyLoadedSkills =
                                       Append(@, [name |-> "Alpha",
                                                  content |-> r.content])]
  /\ UNCHANGED cacheVars
  /\ UNCHANGED loaderVars
  /\ UNCHANGED gateCall
  /\ UNCHANGED <<directiveCall, configCall>>

\* route.ts:270-398: the loop is over; the resolution is logged when names
\* were requested, the system prompt is put together, the tools are
\* defined and handed to streamText.
StreamResponse(logger) ==
  /\ handler.pc = "loading"
  /\ Resolved = Len(handler.requestedSkillNames)
  /\ handler.requestedSkillNames = <<>> => logger = "ok"
  /\ IF logger = "throws"
     THEN handler' = [handler EXCEPT !.pc = "failed",
                                     !.failedAt = "explicit_resolution"]
     ELSE LET tools == IF handler.skillToolingEnabled
                       THEN {"loadSkill", "load_skill"}
                       ELSE {}
          IN handler' =
               [handler EXCEPT
                  !.pc = "responded",
                  !.skillsSystemPrompt =
                     IF handler.skillToolingEnabled
                     THEN buildSkillsSystemPrompt(handler.skills)
                     ELSE FALSE,
                  !.explicitSkillsSystemPrompt =
                     buildExplicitSkillsSystemPrompt(
                       handler.explicitlyLoadedSkills),
                  !.tools = tools,
                  !.activeTools =
                     IF ~handler.isReasoningModel THEN tools ELSE {}]
  /\ UNCHANGED cacheVars
  /\ UNCHANGED loaderVars
  /\ UNCHANGED <<gateCall, loads, telemetry>>
  /\ UNCHANGED <<directiveCall, configCall>>

\* A request arrives on an empty cache.  The scan its build will run ends
\* with one skill, with its one skill gated, or (skills disabled) empty.
RouteInit ==
  /\ CacheIdle
  /\ GateIdle
  /\ RuntimeIdle
  /\ pc = "done"
  /\ config \in {c \in Configs : c.maxCount = 1}
  /\ rootIdx = 0
  /\ snapshot \in IF config.enabled
                  THEN {ScannedSnapshot, GatedSnapshot}
                  ELSE {createEmptySkillsSnapshot}
  /\ seenNames = {toLowerCase(snapshot.skills[i].name) :
                    i \in DOMAIN snapshot.skills}
  /\ maxCountErrorEmitted = FALSE
  /\ binCheckCache = "none"
  /\ listed = <<>>
  /\ offered = <<>>
  /\ reads = {}
  /\ directiveCall = NoDirectiveCall
  /\ configCall = NoConfigCall
  /\ handler \in {[NoRequest EXCEPT !.pc = "start",
                                    !.isReasoningModel = r,
                                    !.requestedSkillNames = n] :
                     r \in BOOLEAN, n \in RequestedSkillNames}

RouteNext ==
  \/ calls = <<>> /\ handler.pc = "start" /\ getSkillsSnapshot("A")
  \/ buildSnapshot("ok")
  \/ BuildRejects(1)
  \/ \E logger \in {"ok", "throws"} : AwaitSkillsSnapshot(logger)
  \/ \E file \in Files, sinks \in Sinks : LoadRequestedSkill(file, sinks)
  \/ \E logger \in {"ok", "throws"} : StreamResponse(logger)

RouteSpec == RouteInit /\ [][RouteNext]_vars

(***************************************************************************)
(* directives.ts:1-135: the directive extractor, as functions.  A text is  *)
(* the sequence of its pieces, so that joining pieces is concatenation: a  *)
(* piece is a name, a word, one blank, one line feed, a closing bracket,   *)
(* or one half of the opening "[Use Skill:" in either casing.              *)
(***************************************************************************)

MaxSegments == 5
MaxMessages == 2

WhiteSpace == {" ", "\n"}

\* The pieces of text at the indices in S, in order.
Pieces(text, S) ==
  [k \in 1..Cardinality(S) |->
     text[CHOOSE i \in S : Cardinality({j \in S : j <= i}) = k]]

\* String.prototype.trim and String.prototype.toLowerCase on a text.
trimText(text) ==
  LET kept == {i \in DOMAIN text : text[i] \notin WhiteSpace}
  IN IF kept = {} THEN <<>>
     ELSE SubSeq(text, CHOOSE i \in kept : \A j \in kept : i <= j,
                       CHOOSE i \in kept : \A j \in kept : i >= j)
toLowerCaseText(text) == [i \in DOMAIN text |-> toLowerCase(text[i])]

\* directives.ts:1: whether SKILL_DIRECTIVE_PATTERN matches at piece i (the
\* literal "[Use Skill:", then at least one character that is not "]", then
\* "]"), and the piece its match ends with.
SKILL_DIRECTIVE_PATTERN(text, i) ==
  /\ i + 2 <= Len(text)
  /\ text[i] = "[Use " /\ text[i + 1] = "Skill:"
  /\ text[i + 2] # "]"
  /\ \E k \in i + 3..Len(text) : text[k] = "]"
MatchEnd(text, i) ==
  CHOOSE k \in i + 3..Len(text) :
    text[k] = "]" /\ \A j \in i + 3..k - 1 : text[j] # "]"

\* match[1]: what stands between the opening and the closing bracket.
Group1(text, i) == SubSeq(text, i + 2, MatchEnd(text, i) - 1)

\* text.matchAll(SKILL_DIRECTIVE_PATTERN) from piece i on: where the
\* matches begin.  The scan goes on behind a match.
RECURSIVE matchAll(_, _)
matchAll(text, i) ==
  IF i > Len(text) THEN <<>>
  ELSE IF SKILL_DIRECTIVE_PATTERN(text, i)
       THEN <<i>> \o matchAll(text, MatchEnd(text, i) + 1)
       ELSE matchAll(text, i + 1)

\* directives.ts:7-24 (seenSkillNames holds the lower-cased names of
\* requestedSkillNames throughout)
addUniqueSkillName_CaseSensitive(requestedSkillNames, value) ==
  LET trimmed == trimText(value)
  IN IF trimmed = <<>> THEN requestedSkillNames
     ELSE IF \E k \in DOMAIN requestedSkillNames :
               requestedSkillNames[k] = trimmed
          THEN requestedSkillNames
          ELSE Append(requestedSkillNames, trimmed)
addUniqueSkillName(requestedSkillNames, value) ==
  LET trimmed == trimText(value)
      normalized == toLowerCaseText(trimmed)
  IN IF trimmed = <<>> THEN requestedSkillNames
     ELSE IF \E k \in DOMAIN requestedSkillNames :
               toLowerCaseText(requestedSkillNames[k]) = normalized
          THEN requestedSkillNames
          ELSE Append(requestedSkillNames, trimmed)

\* directives.ts:119-123 (and the loops of 35-39 and 77-79)
RECURSIVE mergeSkillNames(_, _)
mergeSkillNames(requestedSkillNames, names) ==
  IF names = <<>> THEN requestedSkillNames
  ELSE mergeSkillNames(addUniqueSkillName(requestedSkillNames, Head(names)),
                       Tail(names))

\* .replace(/^\s*\n+/, ""): the white space the text begins with goes, up
\* to its last line feed.
dropLeadingBlankLines(text) ==
  LET leading == {i \in DOMAIN text :
                    \A j \in 1..i : text[j] \in WhiteSpace}
      feeds == {i \in leading : text[i] = "\n"}
  IN IF feeds = {} THEN text
     ELSE SubSeq(text, 1 + CHOOSE i \in feeds : \A j \in feeds : i >= j,
                 Len(text))

\* .replace(/\n{3,}/g, "\n\n"): of three or more line feeds in a row, two
\* stay.
collapseLineFeeds(text) ==
  Pieces(text, {i \in DOMAIN text :
                  ~(/\ i > 2
                    /\ text[i] = "\n"
                    /\ text[i - 1] = "\n"
                    /\ text[i - 2] = "\n")})

\* directives.ts:26-50
extractSkillDirectives(text) ==
  LET matches == matchAll(text, 1)
      matched == {i \in DOMAIN text :
                    \E k \in DOMAIN matches :
                      matches[k] <= i /\ i <= MatchEnd(text, matches[k])}
  IN [requestedSkillNames |->
        mergeSkillNames(<<>>, [k \in DOMAIN matches |->
                                 Group1(text, matches[k])]),
      strippedText |->
        collapseLineFeeds(
          dropLeadingBlankLines(Pieces(text, DOMAIN text \ matched)))]

\* directives.ts:52-83: parts is the list of a message's parts (not a list:
\* the empty list).
RECURSIVE collectSkillDirectiveNamesFromParts(_)
collectSkillDirectiveNamesFromParts(parts) ==
  IF parts = <<>> THEN <<>>
  ELSE LET part == parts[Len(parts)]
           before ==
             collectSkillDirectiveNamesFromParts(
               SubSeq(parts, 1, Len(parts) - 1))
       IN IF part.type # "text" THEN before
          ELSE mergeSkillNames(
                 before, extractSkillDirectives(part.text).requestedSkillNames)

\* A message that is not there (undefined, or not an object).
UndefinedMessage == [role |-> "undefined", parts |-> <<>>]

\* directives.ts:85-91
getMessageParts(message) == message.parts

\* directives.ts:93-110
getLatestUserMessage_First(messages) ==
  LET users == {i \in DOMAIN messages : messages[i].role = "user"}
  IN IF users = {} THEN UndefinedMessage
     ELSE messages[CHOOSE i \in users : \A j \in users : i <= j]
getLatestUserMessage(messages) ==
  LET users == {i \in DOMAIN messages : messages[i].role = "user"}
  IN IF users = {} THEN UndefinedMessage
     ELSE messages[CHOOSE i \in users : \A j \in users : i >= j]

\* directives.ts:112-135
collectSkillDirectiveNamesFromRequestBody(body) ==
  mergeSkillNames(
    mergeSkillNames(
      <<>>, collectSkillDirectiveNamesFromParts(getMessageParts(body.message))),
    collectSkillDirectiveNamesFromParts(
      getMessageParts(getLatestUserMessage(body.messages))))

\* The texts the extractor is given: up to MaxSegments of these segments
\* in a row.  A marker in two casings of the name, one in lower case
\* throughout, one with a blank for a name, the first half of an opening,
\* the rest of a marker, a line feed, a word.
Marker(name) == <<"[Use ", "Skill:", " ", name, "]">>
LowerCaseMarker == <<"[use ", "skill:", " ", "resume polisher", "]">>
Segments ==
  {Marker("Resume Polisher"), Marker("resume polisher"), LowerCaseMarker,
   <<"[Use ", "Skill:", " ", "]">>,
   <<"[Use ">>,
   <<"Skill:", " ", "Beta", "]">>,
   <<"\n">>,
   <<"text">>}
RECURSIVE TextsOfAtMost(_)
TextsOfAtMost(n) ==
  IF n = 0 THEN {<<>>}
  ELSE LET shorter == TextsOfAtMost(n - 1)
       IN shorter \cup {t \o seg : t \in shorter, seg \in Segments}
Texts == TextsOfAtMost(MaxSegments)

\* The request bodies: the parts of a message are of type text or file, a
\* message has role user or assistant, the current message may be absent,
\* and messages holds up to MaxMessages messages.
Parts ==
  {[type |-> "text", text |-> t] :
     t \in {Marker("Resume Polisher") \o <<"\n", "text">>,
            Marker("resume polisher") \o Marker("Beta"),
            Marker("Beta"),
            <<"text">>}}
  \cup {[type |-> "file", text |-> Marker("Beta")]}
PartLists ==
  {<<>>} \cup {<<part>> : part \in Parts}
  \cup {<<[type |-> "text", text |-> Marker("Beta")],
          [type |-> "text", text |-> Marker("resume polisher")
                                      \o Marker("Beta")]>>}
Messages == [role : {"user", "assistant"}, parts : PartLists]
RECURSIVE MessageListsOfAtMost(_)
MessageListsOfAtMost(n) ==
  IF n = 0 THEN {<<>>}
  ELSE LET shorter == MessageListsOfAtMost(n - 1)
       IN shorter \cup {Append(l, m) : l \in shorter, m \in Messages}
Bodies ==
  [message : Messages \cup {UndefinedMessage},
   messages : MessageListsOfAtMost(MaxMessages)]

\* extractSkillDirectives(text)
CallExtractSkillDirectives ==
  /\ directiveCall.pc = "call"
  /\ directiveCall.fn = "extractSkillDirectives"
  /\ LET r == extractSkillDirectives(directiveCall.text)
     IN directiveCall' =
          [directiveCall EXCEPT
             !.pc = "returned",
             !.requestedSkillNames = r.requestedSkillNames,
             !.strippedText = r.strippedText]
  /\ UNCHANGED cacheVars
  /\ UNCHANGED loaderVars
  /\ UNCHANGED <<gateCall, loads, telemetry, handler, configCall>>

\* collectSkillDirectiveNamesFromRequestBody(body)
CallCollectFromRequestBody ==
  /\ directiveCall.pc = "call"
  /\ directiveCall.fn = "collectSkillDirectiveNamesFromRequestBody"
  /\ directiveCall' =
       [directiveCall EXCEPT
          !.pc = "returned",
          !.requestedSkillNames =
             collectSkillDirectiveNamesFromRequestBody(directiveCall.body)]
  /\ UNCHANGED cacheVars
  /\ UNCHANGED loaderVars
  /\ UNCHANGED <<gateCall, loads, telemetry, handler, configCall>>

DirectivesInit ==
  /\ CacheIdle
  /\ LoaderIdle
  /\ GateIdle
  /\ RuntimeIdle
  /\ handler = NoRequest
  /\ configCall = NoConfigCall
  /\ directiveCall \in
       {[NoDirectiveCall EXCEPT !.pc = "call",
                                !.fn = "extractSkillDirectives",
                                !.text = t] : t \in Texts}
       \cup {[NoDirectiveCall EXCEPT
                !.pc = "call",
                !.fn = "collectSkillDirectiveNamesFromRequestBody",
                !.body = b] : b \in Bodies}

DirectivesNext ==
  \/ CallExtractSkillDirectives
  \/ CallCollectFromRequestBody

DirectivesSpec == DirectivesInit /\ [][DirectivesNext]_vars

(***************************************************************************)
(* config.ts:40-81: the workspace directories of getSkillsConfig.  The     *)
(* value of SKILLS_WORKSPACE_DIRS is the sequence of the entries its       *)
(* commas separate (the variable unset, or set to the empty string: no     *)
(* entry); cwd is "/cwd".                                                  *)
(***************************************************************************)

MaxDirs == 3

\* The entries: a relative path plain, with blanks around it and with a
\* leading "./", the same directory as an absolute path, another relative
\* path, and an entry of nothing but a blank.
DirEntries == {"a", " a ", "./a", "/cwd/a", "b", " "}

\* String.prototype.trim on an entry
trimDir(dir) ==
  CASE dir = " a " -> "a"
    [] dir = " " -> ""
    [] OTHER -> dir

\* path.isAbsolute, and path.join(cwd, dir), which normalises its result
isAbsolute(dir) == dir = "/cwd/a"
join(cwd, dir) ==
  CASE dir = "a" -> "/cwd/a"
    [] dir = "./a" -> "/cwd/a"
    [] dir = "b" -> "/cwd/b"
    [] dir = "agent-skills" -> "/cwd/agent-skills"
    [] OTHER -> dir

\* [...new Set(dirs)]: of equal strings, the first.
newSet(dirs) ==
  Pieces(dirs, {i \in DOMAIN dirs : \A j \in 1..i - 1 : dirs[j] # dirs[i]})

\* config.ts:40-47: raw?.trim() is empty when the variable is unset or
\* holds white space only (no comma).
parseDirs(raw, fallback) ==
  LET value == IF Len(raw) = 0 \/ (Len(raw) = 1 /\ trimDir(raw[1]) = "")
               THEN <<>>
               ELSE raw
      split == IF value # <<>> THEN value ELSE fallback
      trimmed == [i \in DOMAIN split |-> trimDir(split[i])]
  IN newSet(Pieces(trimmed, {i \in DOMAIN trimmed : trimmed[i] # ""}))

\* config.ts:49-55 (dir is never null here)
resolveDir(cwd, dir) == IF isAbsolute(dir) THEN dir ELSE join(cwd, dir)

\* config.ts:74-81: the workspaceDirs of getSkillsConfig("/cwd")
getSkillsConfig(SKILLS_WORKSPACE_DIRS) ==
  LET dirs == parseDirs(SKILLS_WORKSPACE_DIRS, <<"agent-skills">>)
  IN [i \in DOMAIN dirs |-> resolveDir("/cwd", dirs[i])]

RECURSIVE DirListsOfAtMost(_)
DirListsOfAtMost(n) ==
  IF n = 0 THEN {<<>>}
  ELSE LET shorter == DirListsOfAtMost(n - 1)
       IN shorter \cup {Append(l, dir) : l \in shorter, dir \in DirEntries}

CallGetSkillsConfig ==
  /\ configCall.pc = "call"
  /\ configCall' =
       [configCall EXCEPT
          !.pc = "returned",
          !.workspaceDirs = getSkillsConfig(configCall.SKILLS_WORKSPACE_DIRS)]
  /\ UNCHANGED cacheVars
  /\ UNCHANGED loaderVars
  /\ UNCHANGED <<gateCall, loads, telemetry, handler, directiveCall>>

ConfigInit ==
  /\ CacheIdle
  /\ LoaderIdle
  /\ GateIdle
  /\ RuntimeIdle
  /\ handler = NoRequest
  /\ directiveCall = NoDirectiveCall
  /\ configCall \in [pc : {"call"},
                      SKILLS_WORKSPACE_DIRS : DirListsOfAtMost(MaxDirs),
                      workspaceDirs : {<<>>}]

ConfigNext == CallGetSkillsConfig

ConfigSpec == ConfigInit /\ [][ConfigNext]_vars

Init ==
  /\ CacheIdle
  /\ LoaderIdle
  /\ GateIdle
  /\ RuntimeIdle
  /\ RequestIdle

Next ==
  \/ \E fp \in fingerprintConfig : getSkillsSnapshot(fp)
  \/ \E b \in 1..MaxCalls : BuildResolves(b)
  \/ \E b \in 1..MaxCalls : BuildRejects(b)
  \/ resetSkillsCache
  \/ Tick

Spec == Init /\ [][Next]_vars

(***************************************************************************)
(* Claims about the cache (checked under Spec).                            *)
(***************************************************************************)

BuildIds == 1..Len(builds)
CallIds == 1..Len(calls)

\* The step is a getSkillsSnapshot call with a config of fingerprint fp.
CallStep(fp) ==
  Len(calls') = Len(calls) + 1 /\ calls'[Len(calls')].fp = fp
NewCall == calls'[Len(calls')]

\* The builds of fingerprint fp that are in flight.
PendingBuilds(fp) ==
  {b \in BuildIds : builds[b].fp = fp /\ builds[b].status = "pending"}

\* C1: in every interleaving of calls and build completions (no reset), at
\* most one scan is in flight per fingerprint at any time.
C1_AtMostOneScanInFlight ==
  epoch = 0 => \A fp \in fingerprintConfig : Cardinality(PendingBuilds(fp)) <= 1

\* A build of fingerprint fp resolved and the entry it stored has not yet
\* reached its expiry (completion time + cacheTtlMs).
UnexpiredEntryFor(fp) ==
  \E b \in BuildIds :
    /\ builds[b].fp = fp
    /\ builds[b].status = "ok"
    /\ now < builds[b].doneAt + cacheTtlMs(fp)

\* C2: an unexpired entry for a fingerprint survives calls made with configs
\* of other fingerprints: every call for it before its expiry is served from
\* the cache and starts no scan (no reset involved).
C2_OtherFingerprintDoesNotEvict ==
  [][\A fp \in fingerprintConfig :
       (epoch = 0 /\ UnexpiredEntryFor(fp) /\ CallStep(fp))
         => (NewCall.kind = "hit" /\ builds' = builds)]_vars

\* The calls issued before the first scan completed.
EarlyCalls == {i \in CallIds : calls[i].early}

\* Only one config has been used, and the cache was never reset.
OneConfigOnly ==
  epoch = 0 /\ \A i \in CallIds : calls[i].fp = calls[1].fp

\* C3: N calls with one config issued before the first scan completed (cache
\* initially empty, no other config, no reset) share one scan, build 1, and
\* all get its outcome: the same snapshot when it resolves.
C3_ConcurrentCallsShareOneScan ==
  (calls # <<>> /\ OneConfigOnly) =>
     /\ \A i \in EarlyCalls : calls[i].kind # "hit" /\ calls[i].ref = 1
     /\ Cardinality({i \in EarlyCalls : calls[i].kind = "start"}) = 1
     /\ FirstScanOutstanding => Len(builds) = 1
     /\ \A i, j \in EarlyCalls : calls[i].result = calls[j].result
     /\ builds[1].status = "ok" =>
          \A i \in EarlyCalls : calls[i].result = "resolved"

C3_Witness ==
  /\ Len(calls) = 3
  /\ OneConfigOnly
  /\ EarlyCalls = CallIds
  /\ builds[1].status = "ok"
  /\ \A i \in CallIds : calls[i].result = "resolved" /\ calls[i].ref = 1

\* The callers awaiting build b.
Awaiting(b) ==
  {i \in CallIds : calls[i].kind # "hit" /\ calls[i].ref = b
                     /\ calls[i].result = "pending"}

Stored(b) ==
  /\ state # NoState
  /\ state.snapshot = b
  /\ state.fingerprint = builds[b].fp
  /\ state.inFlight = 0
  /\ state.expiresAt # 0
  /\ builds[b].status = "ok"

\* C5: a call is served from the cache, without a scan, exactly when the
\* stored entry has the call's fingerprint and the call's time is before the
\* storing build's completion time + cacheTtlMs; it then returns that build's
\* snapshot.  At or after the expiry it starts, or joins, a build.
C5_ServedExactlyUntilExpiry ==
  [][\A fp \in fingerprintConfig : CallStep(fp) =>
       /\ (NewCall.kind = "hit") <=>
            (\E b \in BuildIds :
               /\ Stored(b)
               /\ builds[b].fp = fp
               /\ now < builds[b].doneAt + cacheTtlMs(fp))
       /\ NewCall.kind = "hit" =>
            /\ Stored(NewCall.ref)
            /\ NewCall.result = "resolved"
            /\ builds' = builds
       /\ NewCall.kind = "join" =>
            /\ builds[NewCall.ref].status = "pending"
            /\ builds[NewCall.ref].fp = fp
            /\ builds' = builds
       /\ NewCall.kind = "start" =>
            /\ Len(builds') = Len(builds) + 1
            /\ NewCall.ref = Len(builds')
            /\ builds'[NewCall.ref].fp = fp]_vars

\* A call served from the cache, and a later call with the same config that
\* found the entry expired and started a new scan.
C5_Witness ==
  /\ OneConfigOnly
  /\ Len(builds) = 2
  /\ \E i, j \in CallIds :
       /\ i < j
       /\ calls[i].kind = "hit" /\ calls[i].ref = 1
       /\ calls[j].kind = "start" /\ calls[j].ref = 2
       /\ state.snapshot = 1

\* C6: after resetSkillsCache a call never returns a snapshot produced by,
\* nor joins, a build started before the reset; and no call clears the cache.
C6_ResetClearsAllState ==
  [][\A fp \in fingerprintConfig : CallStep(fp) =>
       /\ NewCall.kind \in {"hit", "join"} =>
            (NewCall.ref \in BuildIds /\ builds[NewCall.ref].epoch = epoch)
       /\ state' # NoState]_vars


(***************************************************************************)
(* Claims about the scanner (checked under LoaderSpec).  They are stated   *)
(* over what the run met (listed, offered) and what it returns (snapshot). *)
(***************************************************************************)

Offered == DOMAIN offered
Errors == DOMAIN snapshot.errors
Skills == DOMAIN snapshot.skills

ErrorsWith(code) == {i \in Errors : snapshot.errors[i].code = code}
ErrorsOf(src) == {i \in Errors : snapshot.errors[i].source = src}
FailedListings(src) ==
  {i \in DOMAIN listed : listed[i].source = src
                           /\ listed[i].outcome \in {"timeout", "error"}}

\* Entry k was met when maxCount skills were already accepted.
Full(k) == offered[k].count >= config.maxCount

\* Entry k is a real directory whose SKILL.md can be statted, is within
\* maxFileBytes, can be read and parses.
WellFormed(k) ==
  LET e == offered[k].e
  IN /\ e.dirent = "dir" /\ e.lstat = "dir" /\ e.stat = "ok"
     /\ e.size <= config.maxFileBytes /\ e.read = "ok" /\ e.parse = "ok"

\* The metadata puts requirements, and they are not waived by `always`.
Requires(m) == m.openchat = "object" /\ ~m.always /\ m.requires = "object"

\* The entries before k whose binary requirement was looked up.
BinLookupsBefore(k) ==
  {j \in Offered :
     LET m == offered[j].e.metadata
     IN /\ j < k /\ ~Full(j) /\ WellFormed(j)
        /\ Requires(m) /\ m.os # "mismatch" /\ m.env # "unset"
        /\ m.bins = "listed"}

\* Whether the requirements of entry k are met when it is met: nothing
\* required, or the platform listed, the variable set, the binary found (by
\* the first lookup of the run, whose answer is remembered) and the
\* runtime-config path truthy.
RequirementsMet(k) ==
  LET m == offered[k].e.metadata
      first == IF BinLookupsBefore(k) = {} THEN k
               ELSE CHOOSE j \in BinLookupsBefore(k) :
                      \A i \in BinLookupsBefore(k) : j <= i
  IN Requires(m) =>
       /\ m.os # "mismatch"
       /\ m.env # "unset"
       /\ m.bins = "listed" => offered[first].e.spawn = "exit0"
       /\ m.config # "falsy"

\* Entry k holds a valid skill.
ValidSkill(k) == WellFormed(k) /\ RequirementsMet(k)

Key(k) == toLowerCase(offered[k].e.name)

\* The valid skills met below the ceiling: the candidates for acceptance.
Candidates == {k \in Offered : ValidSkill(k) /\ ~Full(k)}
FirstOfName == {k \in Candidates :
                  \A j \in Candidates : j < k => Key(j) # Key(k)}
Collisions == Candidates \ FirstOfName

\* C7: loadSkillsSnapshot never rejects, and in the snapshot it returns every
\* failure (a failed listing, an entry that fails a step) is recorded as an
\* error that comes with a skipped-counter increment for its source tier.
C7_NeverRejectsEveryFailureSkipped ==
  /\ pc # "rejected"
  /\ pc = "done" =>
       \A src \in SkillSource :
         /\ Cardinality(FailedListings(src))
              + Cardinality({k \in Offered :
                   /\ offered[k].source = src /\ ~Full(k)
                   /\ offered[k].e.dirent = "dir" /\ ~ValidSkill(k)})
              <= Cardinality(ErrorsOf(src))
         /\ Cardinality(ErrorsOf(src)) <= snapshot.sourceStats[src].skipped

\* C8: the names in a snapshot are pairwise distinct ignoring case; a
\* candidate whose name collides with an accepted skill is not accepted but
\* recorded as a skill_name_duplicate error.
C8_NamesUniqueIgnoringCase ==
  pc # "rejected" =>
    /\ \A i, j \in Skills :
         i # j => toLowerCase(snapshot.skills[i].name)
                    # toLowerCase(snapshot.skills[j].name)
    /\ Len(snapshot.skills) = Cardinality(FirstOfName)
    /\ Cardinality(ErrorsWith("skill_name_duplicate")) = Cardinality(Collisions)
    /\ \A k \in Collisions :
         \E i \in ErrorsWith("skill_name_duplicate") :
           /\ snapshot.errors[i].source = offered[k].source
           /\ snapshot.errors[i].skillName = offered[k].e.name

C8_Witness ==
  /\ pc = "done"
  /\ \E i \in Skills : snapshot.skills[i].name = "Alpha"
  /\ \E i \in ErrorsWith("skill_name_duplicate") :
       snapshot.errors[i].skillName = "alpha"

\* A valid skill named (ignoring case) x was met in every source tier.
InEveryTier(x) ==
  \A src \in SkillSource :
    \E k \in Offered : offered[k].source = src /\ Key(k) = x /\ ValidSkill(k)

\* The same, each of them met while fewer than maxCount skills were accepted.
InEveryTierBelowCeiling(x) ==
  \A src \in SkillSource :
    \E k \in Candidates : offered[k].source = src /\ Key(k) = x

\* Exactly one entry for x, from workspace, and a duplicate error for user
\* and for bundled.
WorkspaceWins(x) ==
  /\ Cardinality({i \in Skills : toLowerCase(snapshot.skills[i].name) = x}) = 1
  /\ \A i \in Skills :
       toLowerCase(snapshot.skills[i].name) = x
         => snapshot.skills[i].source = "workspace"
  /\ \A src \in {"user", "bundled"} :
       \E i \in ErrorsWith("skill_name_duplicate") :
         /\ snapshot.errors[i].source = src
         /\ toLowerCase(snapshot.errors[i].skillName) = x

\* C9 as claimed: for every enabled config, a valid skill of one name present
\* in workspace, user and bundled yields one entry, from workspace, and a
\* skill_name_duplicate error for each of the other two.
C9_WorkspaceWinsForEveryConfig ==
  pc = "done" =>
    \A x \in {"alpha", "beta"} : InEveryTier(x) => WorkspaceWins(x)

\* C9 as amended: the same, when fewer than maxCount skills are accepted at
\* the time each of the three is met.
C9_WorkspaceWinsBelowCeiling ==
  pc = "done" =>
    \A x \in {"alpha", "beta"} : InEveryTierBelowCeiling(x) => WorkspaceWins(x)

C9_Witness ==
  /\ pc = "done"
  /\ InEveryTierBelowCeiling("alpha")
  /\ WorkspaceWins("alpha")

\* C10: a snapshot never holds more than maxCount skills; an entry met at the
\* ceiling is skipped, never accepted; and there is exactly one
\* max_count_reached error when entries were met at the ceiling, none
\* otherwise.
C10_MaxCountIsHardCeiling ==
  pc # "rejected" =>
    /\ Len(snapshot.skills) <= config.maxCount
    /\ Len(snapshot.skills) <= Cardinality({k \in Offered : ~Full(k)})
    /\ \A src \in SkillSource :
         Cardinality({k \in Offered : offered[k].source = src /\ Full(k)})
           <= snapshot.sourceStats[src].skipped
    /\ Cardinality(ErrorsWith("max_count_reached")) =
         IF \E k \in Offered : Full(k) THEN 1 ELSE 0

\* maxCount = 1, one skill accepted, two more valid skills met beyond it.
C10_Witness ==
  /\ pc = "done"
  /\ config.maxCount = 1
  /\ Len(snapshot.skills) = 1
  /\ Cardinality({k \in Offered : Full(k) /\ ValidSkill(k)}) = 2
  /\ Cardinality(ErrorsWith("max_count_reached")) = 1

\* The listing entries that were accepted (a skill's skillDir names its entry).
AcceptedEntries == {snapshot.skills[i].entry : i \in Skills}

\* Entry k reached the size test of its SKILL.md, and stat reported a size
\* above maxFileBytes.
Oversized(k) ==
  LET e == offered[k].e
  IN /\ ~Full(k) /\ e.dirent = "dir" /\ e.lstat = "dir" /\ e.stat = "ok"
     /\ e.size > config.maxFileBytes

\* C11: a definition file whose size exceeds maxFileBytes is never read (the
\* read step is not invoked for it), its entry is skipped with a
\* skill_file_too_large error, and no skill is accepted from content larger
\* than maxFileBytes.
C11_OversizedNeverReadNorAccepted ==
  /\ \A k \in Offered :
       offered[k].e.size > config.maxFileBytes
         => k \notin reads /\ k \notin AcceptedEntries
  /\ Cardinality(ErrorsWith("skill_file_too_large"))
       = Cardinality({k \in Offered : Oversized(k)})
  /\ \A k \in AcceptedEntries :
       offered[k].e.readSize <= config.maxFileBytes

\* Entry k is a symbolic link: listed as one, or found to be one by lstat.
SymlinkEntry(k) ==
  LET e == offered[k].e
  IN e.dirent = "symlink" \/ (e.dirent = "dir" /\ e.lstat = "symlink")

\* C12: a listing entry that is a symbolic link is never accepted and no
\* definition file is read through it; it is skipped and (when met below the
\* ceiling) an entry_symlink_ignored error is recorded for it.
C12_SymlinkSkippedWithError ==
  /\ \A k \in Offered :
       SymlinkEntry(k) => k \notin reads /\ k \notin AcceptedEntries
  /\ \A src \in SkillSource :
       Cardinality({i \in ErrorsWith("entry_symlink_ignored") :
                      snapshot.errors[i].source = src})
         = Cardinality({k \in Offered : /\ SymlinkEntry(k) /\ ~Full(k)
                                         /\ offered[k].source = src})

\* C13: with enabled = false the run returns the empty snapshot (no skills,
\* no errors, all counters zero) and lists, stats and reads nothing.
C13_DisabledReturnsEmptyWithoutIO ==
  ~config.enabled =>
    /\ pc \in {"start", "done"}
    /\ snapshot = createEmptySkillsSnapshot
    /\ listed = <<>>
    /\ offered = <<>>
    /\ reads = {}

C13_Witness ==
  /\ ~config.enabled
  /\ pc = "done"
  /\ snapshot.skills = <<>>
  /\ snapshot.errors = <<>>

\* The errors a failed listing records.
ListingErrors(src, code) ==
  {i \in ErrorsOf(src) :
     /\ snapshot.errors[i].code = code
     /\ code = "load_timeout" =>
          snapshot.errors[i].reason = "Timed out while reading skills directory"}
ListingsEnding(src, outcome) ==
  {i \in DOMAIN listed : listed[i].source = src /\ listed[i].outcome = outcome}

\* C14: a root whose directory does not exist contributes no skills and no
\* error; any other listing failure records exactly one directory_unreadable
\* or load_timeout error for the root's tier; either way the scan goes on
\* with the next root: a returned snapshot comes from a run that listed every
\* root, in precedence order.
C14_MissingRootEmptyFailedRootOneError ==
  /\ \A i \in DOMAIN listed :
       /\ i <= Len(resolveSkillSourceRoots(config))
       /\ listed[i].source = resolveSkillSourceRoots(config)[i].source
       /\ listed[i].path = resolveSkillSourceRoots(config)[i].path
       /\ listed[i].outcome = "ENOENT" =>
            /\ ErrorsOf(listed[i].source) = {}
            /\ \A j \in Skills : snapshot.skills[j].source # listed[i].source
            /\ \A c \in {"discovered", "loaded", "skipped"} :
                 snapshot.sourceStats[listed[i].source][c] = 0
  /\ \A src \in SkillSource :
       /\ Cardinality(ListingErrors(src, "load_timeout"))
            = Cardinality(ListingsEnding(src, "timeout"))
       /\ Cardinality(ListingErrors(src, "directory_unreadable"))
            = Cardinality(ListingsEnding(src, "error"))
       /\ Cardinality(ListingsEnding(src, "timeout"))
            + Cardinality(ListingsEnding(src, "error")) <= 1
  /\ (pc = "done" /\ config.enabled)
       => Len(listed) = Len(resolveSkillSourceRoots(config))

\* workspace is missing, user cannot be listed, and a bundled skill is loaded.
C14_Witness ==
  /\ pc = "done"
  /\ Len(listed) = 3
  /\ listed[1].outcome = "ENOENT"
  /\ listed[2].outcome \in {"timeout", "error"}
  /\ Cardinality(ErrorsOf("user")) = 1
  /\ \E j \in Skills : snapshot.skills[j].source = "bundled"

\* Entry k is a readable, well-formed skill whose metadata lists an
\* environment variable that the process does not have (or has empty).
EnvMissing(k) ==
  LET m == offered[k].e.metadata
  IN /\ WellFormed(k)
     /\ m.openchat = "object" /\ m.requires = "object" /\ m.env = "unset"

\* ... and nothing comes before the env test: the skill is met below the
\* ceiling, is not marked always: true, and its os requirement is met.
EnvMissingDecides(k) ==
  /\ EnvMissing(k)
  /\ ~Full(k)
  /\ ~offered[k].e.metadata.always
  /\ offered[k].e.metadata.os # "mismatch"

\* skill_gated errors whose reason names the missing variable.
GatedOnEnv(src) ==
  {i \in ErrorsWith("skill_gated") :
     /\ snapshot.errors[i].source = src
     /\ snapshot.errors[i].reason = "env requirement not met (KEY)"}

\* C15 as claimed: a skill that requires an absent environment variable is
\* never in the snapshot, and a skill_gated error naming the variable is
\* recorded for it.
C15_EnvGatedAlways ==
  pc # "rejected" =>
    /\ \A k \in Offered : EnvMissing(k) => k \notin AcceptedEntries
    /\ \A src \in SkillSource :
         Cardinality(GatedOnEnv(src))
           = Cardinality({k \in Offered :
                            EnvMissing(k) /\ offered[k].source = src})

\* C15 as amended: the same for a skill that is not marked always: true,
\* whose os requirement is met and that is met below the maxCount ceiling.
C15_EnvGatedWhenEnvDecides ==
  pc # "rejected" =>
    /\ \A k \in Offered : EnvMissingDecides(k) => k \notin AcceptedEntries
    /\ \A src \in SkillSource :
         Cardinality(GatedOnEnv(src))
           = Cardinality({k \in Offered :
                            EnvMissingDecides(k) /\ offered[k].source = src})
    /\ \A i \in ErrorsWith("skill_gated") :
         snapshot.errors[i].reason = "env requirement not met (KEY)"
           => \E k \in Offered :
                /\ EnvMissingDecides(k)
                /\ offered[k].source = snapshot.errors[i].source
                /\ offered[k].e.name = snapshot.errors[i].skillName

C15_Witness ==
  /\ pc = "done"
  /\ \E k \in Offered : EnvMissingDecides(k) /\ k \notin AcceptedEntries
  /\ \E src \in SkillSource : GatedOnEnv(src) # {}

(***************************************************************************)
(* Claims about the gate (checked under GateSpec).                         *)
(***************************************************************************)

\* What the gate has to find for a listed executable: the remembered answer
\* of the process-wide cache when there is one, else whether `which` finds
\* it (a lookup that cannot even be started finds nothing).
BinaryFound ==
  IF gateCall.cacheBefore # "none" THEN gateCall.cacheBefore = "yes"
  ELSE gateCall.spawn = "exit0"

\* The first requirement kind, in the order os, env, bins, config, that the
\* metadata lists and the process does not meet; "none" when all are met.
FirstFailingKind ==
  LET m == gateCall.metadata
  IN IF m.os = "mismatch" THEN "os"
     ELSE IF m.env = "unset" THEN "env"
     ELSE IF m.bins = "listed" /\ ~BinaryFound THEN "bins"
     ELSE IF m.config = "falsy" THEN "config"
     ELSE "none"

ReasonOfKind(kind) ==
  CASE kind = "os" -> "os requirement not met (platform)"
    [] kind = "env" -> "env requirement not met (KEY)"
    [] kind = "bins" -> "binary requirement not met (tool)"
    [] kind = "config" -> "config requirement not met (path)"
    [] OTHER -> ""

\* C16: the gate returns eligible when the vendor namespace or its requires
\* object is absent or wrong-shaped or when always is true; otherwise it is
\* eligible exactly when every listed requirement is met, a refusal names
\* the first failing kind in the order os, env, bins, config, and nothing
\* (no executable lookup) is evaluated after the first failure.
C16_GateDecidesInOrder ==
  gateCall.pc # "call" =>
    /\ gateCall.pc = "returned"
    /\ ~Requires(gateCall.metadata) =>
         gateCall.result.eligible /\ gateCall.result.lookups = 0
    /\ Requires(gateCall.metadata) =>
         /\ gateCall.result.eligible <=> FirstFailingKind = "none"
         /\ gateCall.result.reason = ReasonOfKind(FirstFailingKind)
         /\ FirstFailingKind \in {"os", "env"} =>
              /\ gateCall.result.lookups = 0
              /\ binCheckCache = gateCall.cacheBefore

\* The same wherever the call returns a result.
C16_GateDecidesInOrderWhenItReturns ==
  gateCall.pc = "returned" =>
    /\ ~Requires(gateCall.metadata) =>
         gateCall.result.eligible /\ gateCall.result.lookups = 0
    /\ Requires(gateCall.metadata) =>
         /\ gateCall.result.eligible <=> FirstFailingKind = "none"
         /\ gateCall.result.reason = ReasonOfKind(FirstFailingKind)
         /\ FirstFailingKind \in {"os", "env"} =>
              /\ gateCall.result.lookups = 0
              /\ binCheckCache = gateCall.cacheBefore

(***************************************************************************)
(* Claims about the runtime facade (checked under RuntimeSpec).  They are  *)
(* stated over the calls made (loads) and the lines logged (telemetry).    *)
(***************************************************************************)

Loads == DOMAIN loads

\* The lines logged by call i of loadSkillByName.
LinesOf(i) == {j \in DOMAIN telemetry : telemetry[j].call = i}

\* The name call i asks for is, ignoring case and surrounding blanks, the
\* name of a skill of the snapshot.
Known(i) ==
  \E k \in Skills :
    toLowerCase(snapshot.skills[k].name) = toLowerCase(trim(loads[i].name))

\* The documents parseSkillDocument refuses: no front matter, no description.
Unparsable ==
  {<<"new body">>, <<Delimiter, NameLine, Delimiter, "new body">>}

\* The file cannot be loaded when call i runs: stat or read fails or times
\* out, stat reports more than maxFileBytes, or the content does not parse.
FailsAtLoad(i) ==
  LET f == loads[i].file
  IN \/ f.stat # "ok"
     \/ f.size > config.maxFileBytes
     \/ f.read # "ok"
     \/ f.doc \in Unparsable

\* The logger took what call i handed it.
SinkWorked(i) == loads[i].sinks = SinkWorks

BodyOf(doc) ==
  CASE doc = OldDoc -> <<"old body">>
    [] doc = NewDoc -> <<"new body">>
    [] doc = <<Delimiter, NameLine, DescriptionLine, Delimiter>> -> <<>>
    [] OTHER -> <<"new body", Delimiter, "more">>

\* C18: on a case-insensitive match loadSkillByName stats and reads the file
\* at call time and returns the body of the content it then holds (not what
\* the scan saw, no cached body), the front-matter header fully absent.
C18_ReturnsFreshBodyOnly ==
  \A i \in Loads :
    /\ (Known(i) /\ ~FailsAtLoad(i) /\ SinkWorked(i))
         => loads[i].result.kind = "loaded"
    /\ loads[i].result.kind = "loaded" =>
         /\ Known(i) /\ ~FailsAtLoad(i)
         /\ loads[i].result.content = BodyOf(loads[i].file.doc)
         /\ \A l \in DOMAIN loads[i].result.content :
              loads[i].result.content[l] \notin {NameLine, DescriptionLine}
         /\ loads[i].result.content # <<>>
              => loads[i].result.content[1] # Delimiter

\* The file was rewritten after the scan: a call by another spelling of the
\* name gets the new body and nothing else.
C18_Witness ==
  \E i \in Loads :
    /\ loads[i].name = " alpha "
    /\ loads[i].file.doc = NewDoc
    /\ loads[i].result.kind = "loaded"
    /\ loads[i].result.content = <<"new body">>

\* source / invokedToolName as a line has to show them for a context.
Shown(value) == IF value = "undefined" THEN "null" ELSE value

\* C19: the context goes verbatim into the load_skill_invocation line of its
\* own call and has no effect on loading: calls that differ only in context
\* return the same result.
C19_ContextOnlyReachesTelemetry ==
  /\ \A j \in DOMAIN telemetry :
       telemetry[j].event = "load_skill_invocation" =>
         /\ telemetry[j].call \in Loads
         /\ telemetry[j].source = Shown(loads[telemetry[j].call].context.source)
         /\ telemetry[j].invokedToolName
              = Shown(loads[telemetry[j].call].context.invokedToolName)
  /\ \A i, j \in Loads :
       (/\ loads[i].name = loads[j].name
        /\ loads[i].file = loads[j].file
        /\ loads[i].sinks = loads[j].sinks)
         => /\ loads[i].result = loads[j].result
            /\ Cardinality(LinesOf(i)) = Cardinality(LinesOf(j))

\* Two calls alike but for the context: the same loaded skill, and each
\* line shows its own call's source and tool name.
C19_Witness ==
  /\ Len(loads) = 2
  /\ loads[1].name = loads[2].name
  /\ loads[1].file = loads[2].file
  /\ loads[1].context.source = "tool"
  /\ loads[2].context.source = "explicit_directive"
  /\ loads[1].result.kind = "loaded"
  /\ loads[2].result = loads[1].result
  /\ \E j \in LinesOf(1) : /\ telemetry[j].source = "tool"
                            /\ telemetry[j].invokedToolName = "load_skill"
  /\ \E j \in LinesOf(2) : /\ telemetry[j].source = "explicit_directive"
                            /\ telemetry[j].invokedToolName = "null"

\* C20: a throwing logger never changes the control flow: the build of the
\* request still resolves its caller and is cached, and loadSkillByName
\* returns what it returns with a working logger.
C20_SinkFailureChangesNothing ==
  /\ (builds # <<>> /\ builds[1].status # "pending") =>
       /\ builds[1].status = "ok"
       /\ calls[1].result = "resolved"
       /\ state # NoState /\ state.snapshot = 1 /\ state.inFlight = 0
  /\ \A i \in Loads :
       LET r == loadSkillByName(snapshot.skills, loads[i].name, config,
                                loads[i].context, loads[i].file, SinkWorks)
       IN /\ loads[i].result.kind = r.kind
          /\ loads[i].result.content = r.content

\* C28: every snapshot getSkillsSnapshot resolves with was produced by a
\* scan for the caller's own fingerprint: never the placeholder snapshot
\* (the empty literal, or the snapshot carried over from the previous
\* entry), and a promise in flight is handed only to callers of the
\* fingerprint it was started for.
C28_ResolvesWithOwnFingerprintScan ==
  \A i \in CallIds :
    /\ calls[i].result = "resolved" =>
         /\ calls[i].ref \in BuildIds
         /\ builds[calls[i].ref].status = "ok"
         /\ builds[calls[i].ref].fp = calls[i].fp
    /\ calls[i].kind # "hit" =>
         /\ calls[i].ref \in BuildIds
         /\ builds[calls[i].ref].fp = calls[i].fp

\* The entry of fingerprint B holds, as its placeholder, the snapshot of a
\* scan for A while its own build is in flight; a second caller of B has
\* been handed that build's promise.
C28_Witness ==
  /\ Len(calls) = 3
  /\ state # NoState
  /\ state.fingerprint = "B"
  /\ state.snapshot \in BuildIds
  /\ builds[state.snapshot].fp = "A"
  /\ state.inFlight \in BuildIds
  /\ builds[state.inFlight].fp = "B"
  /\ calls[1].result = "resolved"
  /\ calls[2].fp = "B" /\ calls[2].kind = "start"
  /\ calls[3].fp = "B" /\ calls[3].kind = "join"
  /\ calls[3].ref = state.inFlight

\* The entries met in a tier; those of them counted in discovered (met
\* below the ceiling, and a directory); the skills accepted from the tier;
\* the errors of the tier that stand for an entry that failed a step.
OfferedIn(src) == {k \in Offered : offered[k].source = src}
Discovered(src) ==
  {k \in OfferedIn(src) : ~Full(k) /\ offered[k].e.dirent = "dir"}
SkillsOf(src) == {i \in Skills : snapshot.skills[i].source = src}
EntryErrors(src) ==
  ErrorsOf(src)
    \ (ErrorsWith("max_count_reached")
         \cup ListingErrors(src, "load_timeout")
         \cup ListingErrors(src, "directory_unreadable"))

\* A step that handles one entry of a listing of tier src to the end.
EntryStep(src) ==
  /\ Len(offered') = Len(offered) + 1
  /\ offered'[Len(offered')].source = src
  /\ pc' # "rejected"

\* C29: in every returned snapshot, for each tier loaded + skipped is the
\* number of entries listed in the tier and discovered <= loaded + skipped;
\* every entry counted in discovered ends as exactly one of loaded or
\* skipped with exactly one error; and the loaded counters add up to the
\* number of skills.
C29_CountersConsistent ==
  /\ [](pc = "done" =>
         /\ \A src \in SkillSource :
              LET stats == snapshot.sourceStats[src]
              IN /\ stats.loaded + stats.skipped = Cardinality(OfferedIn(src))
                 /\ stats.discovered <= stats.loaded + stats.skipped
                 /\ stats.discovered = Cardinality(Discovered(src))
                 /\ stats.loaded = Cardinality(SkillsOf(src))
                 /\ stats.discovered
                      = stats.loaded + Cardinality(EntryErrors(src))
         /\ snapshot.sourceStats["workspace"].loaded
              + snapshot.sourceStats["user"].loaded
              + snapshot.sourceStats["bundled"].loaded = Len(snapshot.skills))
  /\ [][\A src \in SkillSource :
         (/\ EntryStep(src)
          /\ snapshot'.sourceStats[src].discovered
               # snapshot.sourceStats[src].discovered) =>
           LET before == snapshot.sourceStats[src]
               after == snapshot'.sourceStats[src]
           IN /\ after.discovered = before.discovered + 1
              /\ \/ /\ after.loaded = before.loaded + 1
                    /\ after.skipped = before.skipped
                    /\ Len(snapshot'.skills) = Len(snapshot.skills) + 1
                    /\ snapshot'.errors = snapshot.errors
                 \/ /\ after.loaded = before.loaded
                    /\ after.skipped = before.skipped + 1
                    /\ snapshot'.skills = snapshot.skills
                    /\ Len(snapshot'.errors) = Len(snapshot.errors) + 1
                    /\ snapshot'.errors[Len(snapshot'.errors)].source = src]_vars

\* A returned snapshot whose workspace tier has an accepted skill, an entry
\* skipped with an error and an entry skipped without being counted in
\* discovered.
C29_Witness ==
  /\ pc = "done"
  /\ snapshot.sourceStats["workspace"]
       = [discovered |-> 2, loaded |-> 1, skipped |-> 2]
  /\ Cardinality(ErrorsOf("workspace")) = 1
  /\ Len(snapshot.skills) = 1

\* Entry j reached the gate below the ceiling and the gate turned it down.
Gated(j) == WellFormed(j) /\ ~Full(j) /\ ~RequirementsMet(j)

\* The skill_name_duplicate errors a tier has for a name.
DuplicateErrors(src, key) ==
  {i \in ErrorsWith("skill_name_duplicate") :
     /\ snapshot.errors[i].source = src
     /\ toLowerCase(snapshot.errors[i].skillName) = key}

\* Entry k holds a valid skill met below the ceiling, an entry of its name
\* was gated in a tier of higher precedence, and no valid skill of that
\* name was met before k.
FollowsGatedNamesake(k) ==
  /\ k \in FirstOfName
  /\ \E j \in Offered :
       /\ j < k
       /\ offered[j].source # offered[k].source
       /\ Gated(j)
       /\ Key(j) = Key(k)

\* C30: a skill rejected by the gate in a higher-precedence source does
\* not reserve its name: a valid, eligible skill of that name met in a
\* lower-precedence source below the ceiling is accepted, and no
\* skill_name_duplicate error is recorded for it.
C30_GatedSkillReservesNoName ==
  pc # "rejected" =>
    \A k \in Offered :
      FollowsGatedNamesake(k) =>
        /\ k \in AcceptedEntries
        /\ Cardinality(DuplicateErrors(offered[k].source, Key(k)))
             = Cardinality({c \in Collisions :
                              /\ offered[c].source = offered[k].source
                              /\ Key(c) = Key(k)})

\* Alpha is gated in workspace (its environment variable is unset) and
\* accepted from user, with no duplicate error.
C30_Witness ==
  /\ pc = "done"
  /\ \E k \in Offered :
       /\ FollowsGatedNamesake(k)
       /\ offered[k].source = "user"
       /\ Key(k) = "alpha"
  /\ \E i \in ErrorsWith("skill_gated") :
       snapshot.errors[i].source = "workspace"
  /\ \E i \in Skills : /\ snapshot.skills[i].source = "user"
                        /\ toLowerCase(snapshot.skills[i].name) = "alpha"
  /\ ErrorsWith("skill_name_duplicate") = {}

\* C22: a run of loadSkillsSnapshot leaves all process-wide state as it
\* found it (no step of a scan writes binCheckCache, the one module-level
\* object the scan can reach), so that its result cannot depend on scans
\* run before it.
C22_ScanLeavesProcessStateUnchanged ==
  [][binCheckCache' = binCheckCache]_vars

(***************************************************************************)
(* Claims about the chat route (checked under RouteSpec).                  *)
(***************************************************************************)

\* C21: skills failures are fail-open for the chat request: whether the
\* snapshot promise rejects, the skills are gated or a requested skill
\* cannot be loaded, postHandler goes on (with fewer or no skills) and never
\* fails in its skills part.
C21_SkillsFailuresAreFailOpen == handler.pc # "failed"

\* The handler fails in its skills part only where a logger throws: in the
\* catch of the snapshot promise, inside loadSkillByName, or on the
\* resolution line.
C21_FailsOnlyWhereTheLoggerThrows ==
  handler.pc = "failed" =>
    \/ handler.failedAt = "snapshot.load_failed" /\ calls[1].result = "rejected"
    \/ /\ handler.failedAt = "loadSkillByName"
       /\ loads # <<>>
       /\ loads[Len(loads)].sinks # SinkWorks
       /\ loads[Len(loads)].result.kind = "threw"
    \/ handler.failedAt = "explicit_resolution"

\* The rejected snapshot promise and the skill that cannot be loaded are
\* survived when the logger works.
C21_RejectionSurvived ==
  /\ handler.pc = "responded"
  /\ calls[1].result = "rejected"
  /\ handler.skills = <<>>
  /\ handler.missingExplicitSkillNames # <<>>

\* What the claim gives for skillToolingEnabled in this request.
ToolingExpected ==
  config.enabled /\ Len(handler.skills) > 0 /\ ~handler.isReasoningModel

\* C23: shouldEnableSkillTooling is true exactly when skills are enabled,
\* at least one skill was discovered and the model is not a reasoning
\* model, and the route exposes the skill-loading tools and the skills
\* system prompt only when it is true.
C23_ToolingExactlyWhenEnabledFoundAndNotReasoning ==
  /\ \A enabled \in BOOLEAN, count \in 0..2, isReasoningModel \in BOOLEAN :
       shouldEnableSkillTooling(enabled, count, isReasoningModel)
         <=> (enabled /\ count > 0 /\ ~isReasoningModel)
  /\ handler.pc \in {"loading", "responded"} =>
       (handler.skillToolingEnabled <=> ToolingExpected)
  /\ handler.pc = "responded" =>
       /\ handler.tools # {} => ToolingExpected
       /\ handler.activeTools # {} => ToolingExpected
       /\ handler.skillsSystemPrompt => ToolingExpected
       /\ ToolingExpected =>
            /\ handler.tools = {"loadSkill", "load_skill"}
            /\ handler.skillsSystemPrompt

\* A response that carries both tools and the skills section.
C23_Witness ==
  /\ handler.pc = "responded"
  /\ config.enabled
  /\ Len(handler.skills) > 0
  /\ ~handler.isReasoningModel
  /\ handler.tools = {"loadSkill", "load_skill"}
  /\ handler.activeTools = handler.tools
  /\ handler.skillsSystemPrompt

(***************************************************************************)
(* Claims about the directive extractor (checked under DirectivesSpec).    *)
(***************************************************************************)

Extracted ==
  directiveCall.pc = "returned" /\ directiveCall.fn = "extractSkillDirectives"
Collected ==
  /\ directiveCall.pc = "returned"
  /\ directiveCall.fn = "collectSkillDirectiveNamesFromRequestBody"

\* The markers of a text: the places where the pattern matches and that lie
\* in no marker that begins further left; the pieces they cover; their
\* names, in the order of the text, the blank ones left out.
Markers(text) ==
  {i \in DOMAIN text :
     /\ SKILL_DIRECTIVE_PATTERN(text, i)
     /\ \A j \in 1..i - 1 :
          SKILL_DIRECTIVE_PATTERN(text, j) => MatchEnd(text, j) < i}
Covered(text) ==
  {i \in DOMAIN text :
     \E m \in Markers(text) : m <= i /\ i <= MatchEnd(text, m)}
MarkerNames(text) ==
  LET named == {m \in Markers(text) : trimText(Group1(text, m)) # <<>>}
      starts == Pieces([i \in DOMAIN text |-> i], named)
  IN [k \in DOMAIN starts |-> trimText(Group1(text, starts[k]))]

\* Of the names that are equal when case is ignored, the first one.
FirstSeen(names) ==
  Pieces(names, {i \in DOMAIN names :
                   \A j \in 1..i - 1 :
                     toLowerCaseText(names[j]) # toLowerCaseText(names[i])})

\* A text without its white space.
Inked(text) == Pieces(text, {i \in DOMAIN text : text[i] \notin WhiteSpace})

\* What the claim holds of every call of extractSkillDirectives.
DedupedAndStripped ==
  Extracted =>
    /\ directiveCall.requestedSkillNames
         = FirstSeen(MarkerNames(directiveCall.text))
    /\ Inked(directiveCall.strippedText)
         = Inked(Pieces(directiveCall.text,
                        DOMAIN directiveCall.text
                          \ Covered(directiveCall.text)))

\* The input of the claim's example, and the same with the second marker
\* spelled as the pattern spells it.
ExampleInput ==
  Marker("Resume Polisher") \o <<"\n">> \o LowerCaseMarker
    \o <<"\n", "text">>
ExampleInputInPatternCase ==
  Marker("Resume Polisher") \o <<"\n">> \o Marker("resume polisher")
    \o <<"\n", "text">>

\* C24: extractSkillDirectives returns the requested names deduplicated
\* case-insensitively in first-seen order and casing and a strippedText
\* from which every marker is removed; for
\* "[Use Skill: Resume Polisher]\n[use skill: resume polisher]\ntext" it
\* returns the one name Resume Polisher and the text "text".
C24_DedupedAndStrippedWithExample ==
  /\ DedupedAndStripped
  /\ (Extracted /\ directiveCall.text = ExampleInput) =>
       /\ directiveCall.requestedSkillNames = << <<"Resume Polisher">> >>
       /\ directiveCall.strippedText = <<"text">>

\* C24, amended: the same with markers being the matches of the
\* (case-sensitive) pattern: for
\* "[Use Skill: Resume Polisher]\n[Use Skill: resume polisher]\ntext" the
\* result is the one name Resume Polisher and the text "text"; where the
\* second marker is written "[use skill: ...]" it is no marker and stays
\* in the text.
C24_DedupedAndStrippedInPatternCase ==
  /\ DedupedAndStripped
  /\ (Extracted /\ directiveCall.text = ExampleInputInPatternCase) =>
       /\ directiveCall.requestedSkillNames = << <<"Resume Polisher">> >>
       /\ directiveCall.strippedText = <<"text">>
  /\ (Extracted /\ directiveCall.text = ExampleInput) =>
       /\ directiveCall.requestedSkillNames = << <<"Resume Polisher">> >>
       /\ directiveCall.strippedText = LowerCaseMarker \o <<"\n", "text">>

\* The example in the casing of the pattern has been extracted.
C24_Witness ==
  /\ Extracted
  /\ directiveCall.text = ExampleInputInPatternCase
  /\ directiveCall.requestedSkillNames = << <<"Resume Polisher">> >>
  /\ directiveCall.strippedText = <<"text">>

\* C25: for every text without a directive marker extractSkillDirectives
\* returns no name and the text itself, unchanged.
C25_NoMarkerNoChange ==
  (Extracted /\ Markers(directiveCall.text) = {}) =>
    /\ directiveCall.requestedSkillNames = <<>>
    /\ directiveCall.strippedText = directiveCall.text

\* Without a marker the result has no name and differs from the text in
\* white space only.
C25_NoMarkerOnlyWhiteSpaceChanges ==
  (Extracted /\ Markers(directiveCall.text) = {}) =>
    /\ directiveCall.requestedSkillNames = <<>>
    /\ Inked(directiveCall.strippedText) = Inked(directiveCall.text)

\* The names a list of parts holds in its text parts, from first to last.
RECURSIVE NamesInTextParts(_)
NamesInTextParts(parts) ==
  IF parts = <<>> THEN <<>>
  ELSE (IF Head(parts).type = "text"
        THEN MarkerNames(Head(parts).text)
        ELSE <<>>) \o NamesInTextParts(Tail(parts))

\* The last message with role user, if any.
LatestUserParts(messages) ==
  IF \E i \in DOMAIN messages : messages[i].role = "user"
  THEN messages[CHOOSE i \in DOMAIN messages :
                  /\ messages[i].role = "user"
                  /\ \A j \in i + 1..Len(messages) :
                       messages[j].role # "user"].parts
  ELSE <<>>

\* C26: collectSkillDirectiveNamesFromRequestBody returns the names in the
\* text parts of the current message, then those of the latest message with
\* role user, deduplicated case-insensitively with first-seen casing;
\* nothing else in the body contributes.
C26_CurrentThenLatestUserMessage ==
  Collected =>
    directiveCall.requestedSkillNames
      = FirstSeen(NamesInTextParts(directiveCall.body.message.parts)
                  \o NamesInTextParts(
                       LatestUserParts(directiveCall.body.messages)))

\* An earlier user message asks for Beta and so does a file part of the
\* current message: Beta is not returned.
C26_Witness ==
  /\ Collected
  /\ Len(directiveCall.body.messages) = 2
  /\ directiveCall.body.messages[1].role = "user"
  /\ directiveCall.body.messages[1].parts
       = <<[type |-> "text", text |-> Marker("Beta")]>>
  /\ directiveCall.body.messages[2].role = "user"
  /\ directiveCall.body.messages[2].parts
       = <<[type |-> "text",
            text |-> Marker("Resume Polisher") \o <<"\n", "text">>]>>
  /\ directiveCall.body.message.parts
       = <<[type |-> "file", text |-> Marker("Beta")]>>
  /\ directiveCall.requestedSkillNames = << <<"Resume Polisher">> >>

(***************************************************************************)
(* Claims about the configuration (checked under ConfigSpec).              *)
(***************************************************************************)

\* C27: the workspaceDirs of the resolved config hold no directory path
\* twice, so that no source root is scanned twice.
C27_NoWorkspaceDirTwice ==
  configCall.pc = "returned" =>
    \A i, j \in DOMAIN configCall.workspaceDirs :
      configCall.workspaceDirs[i] = configCall.workspaceDirs[j] => i = j

\* What does hold: every entry is trimmed, the empty ones are dropped, the
\* relative ones are resolved, and no entry is kept whose trimmed text an
\* earlier entry has.
C27_DistinctAsWritten ==
  configCall.pc = "returned" =>
    LET raw == configCall.SKILLS_WORKSPACE_DIRS
        written == {trimDir(raw[i]) : i \in DOMAIN raw} \ {""}
    IN /\ \A i \in DOMAIN configCall.workspaceDirs :
            configCall.workspaceDirs[i]
              \in {"/cwd/a", "/cwd/b", "/cwd/agent-skills"}
       /\ Len(raw) > 1 =>
            /\ Len(configCall.workspaceDirs) = Cardinality(written)
            /\ {configCall.workspaceDirs[i] :
                  i \in DOMAIN configCall.workspaceDirs}
                 = {resolveDir("/cwd", dir) : dir \in written}


====
